---- MODULE Spec2Model ----
(***************************************************************************)
(* Scheduling and lifecycle-enforcement engine of the bot:                 *)
(*   - the expiry sweep      (utils/scheduler.py, check_expired_subscriptions) *)
(*   - the post publication  (utils/scheduler.py, publish_scheduled_posts)     *)
(*   - the lead notifier     (handlers/events.py, handle_free_channel_join)    *)
(* Every await of the Python code is one step of the model.                *)
(***************************************************************************)
EXTENDS Integers, Sequences, FiniteSets, Bags, TLC

VARIABLES
    now,          \* wall clock (datetime.now() / time.time())
    subStatus,    \* subscriptions.status, per record
    subEnd,       \* subscriptions.end_date, per record
    stFault,      \* the pipeline whose storage calls may fail ("none": storage is reliable)
    tpFixed,      \* TRUE: the transport answers the same call the same way
    tpMemo,       \* the answers given so far (used when tpFixed)
    pc,           \* position of each sweep execution
    batch,        \* expired_subs of each sweep execution
    idx,          \* index of the record a sweep execution is at
    noBan,        \* channels_no_ban_right of each sweep execution
    fetchAt,      \* `now` computed by get_expired_subscriptions
    runs,         \* number of passes each sweep execution has started
    recLog,       \* history: transport/storage calls made for the current record
    preNoRight,   \* history: channel -> batch index at which the pre-check found the right missing
    passCalls,    \* history: records for which this pass called ban or send
    h_end,        \* history: (fetch time, statuses) at the end of each pass
    noticed,      \* history: per pass and channel, the missing-right notices sent
    botAsked,     \* history: per pass and channel, the get_chat_member(channel, bot.id) calls made
    banLog,       \* history: per subscription, the removals done and the auto-ban notices delivered
    postStatus,   \* scheduled_posts.status, per post
    ppc,          \* position of each publication run
    pbatch,       \* posts_to_publish of each publication run
    pidx,         \* index of the post a publication run is at
    ptarget,      \* post_id argument of publish_single_post, while it is looked at (else None)
    pruns,        \* number of runs each publisher has started
    psnap,        \* history: (fetch time, statuses) when the run fetched its batch (time -1: never)
    pSent,        \* history: posts this run handed to the transport
    dispatched,   \* history: per post, the number of transport sends of its content
    sentTo,       \* history: per post, the channels its content was sent to
    sincePause,   \* history: per run, the transport sends since its last asyncio.sleep(2)
    lockHolder,   \* _lead_notify_lock: the set of the caller inside `async with`
    lockQueue,    \* the callers waiting for the lock, first come first
    lastTs,       \* _lead_notify_last_ts (0: no entry, the default of .get)
    winTs,        \* _lead_notify_timestamps
    cpc,          \* position of each handle_free_channel_join call
    cowner,       \* owner_id of each call
    wake,         \* the time the asyncio.sleep of a call is over
    nEvents,      \* number of calls so far
    gapsUsed,     \* number of idle gaps so far
    passLog,      \* history: per owner, the recorded send times of the last 60 seconds
    nPassed,      \* history: per owner, calls that recorded a timestamp
    nSkipped,     \* history: per owner, calls skipped at the ceiling
    nSendCalls,   \* history: per owner, send_message calls made
    ticket,       \* history: per call, its place among the calls that recorded a timestamp for its owner (0: none)
    handed,       \* history: per owner, the ticket of the call whose send_message was called last
    isRunning,    \* BotScheduler._is_running
    loopSet,      \* BotScheduler._loop is not None
    apsRunning,   \* the AsyncIOScheduler is started (not shut down)
    jobs,         \* the job ids registered in the AsyncIOScheduler
    sfsPc,        \* position of the body of each SFS job
    ticks,        \* number of job executions the AsyncIOScheduler has fired
    lastCall,     \* history: how the last start() or stop() call ended
    overlapped,   \* history: <<j, k>>: job j fired while the body of job k was in flight
    pressed,      \* history: the last callback query of an owner and the handler that took it
    table,        \* the rows of the subscriptions table, as the statements leave them
    call,         \* history: the last create_subscription call and the row it met
    stoppedWith   \* history: the job bodies in flight when stop() last shut the scheduler down

sweepVars == <<pc, batch, idx, noBan, fetchAt, runs, recLog, preNoRight, passCalls, h_end,
               noticed, banLog, botAsked>>
storeVars == <<subStatus, subEnd, stFault>>
envVars   == <<now, tpFixed, tpMemo>>
pubVars   == <<postStatus, ppc, pbatch, pidx, ptarget, pruns, psnap, pSent, dispatched,
               sentTo, sincePause>>
leadVars  == <<lockHolder, lockQueue, lastTs, winTs, cpc, cowner, wake, nEvents, gapsUsed,
               passLog, nPassed, nSkipped, nSendCalls, ticket, handed>>
schedVars == <<isRunning, loopSet, apsRunning, jobs, sfsPc, ticks, lastCall, overlapped,
               stoppedWith>>
cbVars    == <<pressed, table, call>>
vars      == <<envVars, storeVars, sweepVars, pubVars, leadVars, schedVars, cbVars>>
\* what a step of the sweep, of the publication, of the notifier leaves alone
nonSweep  == <<pubVars, leadVars, schedVars, cbVars>>
nonPub    == <<storeVars, sweepVars, tpFixed, tpMemo, leadVars, schedVars, cbVars>>
nonLead   == <<storeVars, sweepVars, tpFixed, tpMemo, pubVars, schedVars, cbVars>>
nonSched  == <<envVars, storeVars, leadVars, cbVars>>

(***************************************************************************)
(* Bounds                                                                   *)
(***************************************************************************)
NumSubs  == 6      \* subscription records in the table
MaxTime  == 1      \* the clock runs from 0 to MaxTime
MaxRuns  == 2      \* passes one sweep execution (runs one publisher) may start
NumPosts == 4      \* rows of scheduled_posts
NumCallers == 2    \* handle_free_channel_join calls in flight at the same time
MaxEvents == 27    \* free-channel joins in one behaviour
MaxOther == 1      \* of which for the second owner
MaxGaps == 1       \* idle gaps (time passing with no call sleeping) in one behaviour
MaxTicks == 2      \* job executions the AsyncIOScheduler fires in one behaviour
MaxCalls == 3      \* create_subscription calls in one behaviour

FarFuture == 9999  \* datetime(9999, 12, 31): the end date of a lead record

None == "none"

(***************************************************************************)
(* The stored tables the sweep reads.                                      *)
(***************************************************************************)
\* rows of `subscriptions`: identity (user, channel), owner, end date
SubTable ==
    <<[user |-> 1, channel |-> "c1", owner |-> "o1", end |-> 0],
      [user |-> 2, channel |-> "c1", owner |-> "o1", end |-> 0],
      [user |-> 3, channel |-> "c2", owner |-> "o2", end |-> 1],
      [user |-> 4, channel |-> "c4", owner |-> "o3", end |-> 0],
      [user |-> 1, channel |-> "c3", owner |-> "o1", end |-> 0],
      [user |-> 5, channel |-> "cf", owner |-> "o2", end |-> FarFuture]>>

SubIds == 1..NumSubs
Row(s) == SubTable[((s - 1) % Len(SubTable)) + 1]
\* a record beyond the table repeats a row for a fresh user
UserOf(s)    == Row(s).user + 10 * ((s - 1) \div Len(SubTable))
ChannelOf(s) == Row(s).channel
OwnerOf(s)   == Row(s).owner
InitEnd(s)   == Row(s).end

Channels == {"c1", "c2", "c3", "c4", "cf"}
Owners   == {"o1", "o2", "o3"}

\* SettingsManager.get_premium_channel_id: the owner's premium_channel_id
\* setting, else the owner's first channel of type premium, else None
get_premium_channel_id(o) ==
    CASE o = "o1" -> "c1"
      [] o = "o2" -> "c2"
      [] OTHER    -> None

\* the subscriptions on the premium channel of their owner
OnPremium == {s \in SubIds : ChannelOf(s) = get_premium_channel_id(OwnerOf(s))}

Min(S) == CHOOSE x \in S : \A y \in S : x <= y
Sweepers == {"job", "checknow"}

(***************************************************************************)
(* Storage gateway                                                          *)
(***************************************************************************)
\* SubscriptionManager.get_expired_subscriptions:
\*   SELECT * FROM subscriptions WHERE status = 'active' AND end_date <= now
ExpiredSet(st, en, t) == {s \in SubIds : st[s] = "active" /\ en[s] <= t}

RECURSIVE RowsOf(_)
\* the rows of a result set in table order
RowsOf(S) ==
    IF S = {} THEN <<>>
    ELSE LET m == CHOOSE x \in S : \A y \in S : x <= y
         IN  <<m>> \o RowsOf(S \ {m})

get_expired_subscriptions_any_end(st, en, t) ==
    RowsOf({s \in SubIds : st[s] = "active"})
get_expired_subscriptions_any_status(st, en, t) ==
    RowsOf({s \in SubIds : en[s] <= t})
get_expired_subscriptions(st, en, t) == RowsOf(ExpiredSet(st, en, t))

\* SubscriptionManager.update_subscription_status:
\*   UPDATE subscriptions SET status = v WHERE user_id = u AND channel_id = c
update_subscription_status(st, u, c, v) ==
    [s \in SubIds |-> IF UserOf(s) = u /\ ChannelOf(s) = c THEN v ELSE st[s]]

\* a storage call made by pipeline pl goes through (TRUE) or fails (FALSE);
\* the gateway catches the failure (models.py 441-443, 509-511, 910-912,
\* 1328-1330): a write returns False and changes nothing, a lookup returns None
StoreOutcomes(pl) == IF stFault = pl THEN {TRUE, FALSE} ELSE {TRUE}
Written(ok, new, old) == IF ok THEN new ELSE old

(***************************************************************************)
(* Transport gateway: what a Bot API call may answer.                      *)
(***************************************************************************)
BotId == 0
Users == {UserOf(s) : s \in SubIds}

\* bot.get_chat_member(channel, bot.id): raises, or the bot's own membership
BotAnswers    == {"error", "admin_no_restrict", "admin_ok", "not_admin"}
\* bot.get_chat_member(channel, user): raises, or the user's status
MemberAnswers == {"error", "administrator", "creator", "member"}
\* bot.ban_chat_member: returns, raises TelegramBadRequest with a
\* "not enough rights"/"restrict" text, another TelegramBadRequest, or another error
BanAnswers    == {"ok", "lacking_rights", "bad_request", "error"}
\* bot.send_message to the owner: returns or raises
SendAnswers   == {"ok", "error"}

MemoKeys == ({"get_bot"} \X Channels \X {BotId})
              \cup ({"get_member", "ban"} \X Channels \X Users)

BotLacksRestrict_or_raised(r) == r \in {"admin_no_restrict", "error"}
\* line 136-137: the bot is an administrator without can_restrict_members
BotLacksRestrict(r) == r = "admin_no_restrict"

IsUntouchable_creator_forgotten(r) == r = "administrator"
\* line 175: status in (ADMINISTRATOR, CREATOR)
IsUntouchable(r) == r \in {"administrator", "creator"}

\* the answers the transport may give to call `key`
Answer(key, S) == IF tpFixed /\ tpMemo[key] # "unset" THEN {tpMemo[key]} ELSE S
Remember(key, r) == IF tpFixed THEN [tpMemo EXCEPT ![key] = r] ELSE tpMemo

(***************************************************************************)
(* The expiry sweep: BotScheduler.check_expired_subscriptions.             *)
(***************************************************************************)
cur(p)  == batch[p][idx[p]]
prem(p) == get_premium_channel_id(OwnerOf(cur(p)))

\* a chat id is a user id or an owner id; the private chat of a user
UserChat(u) == ToString(u)
NoticeRecipient_user(s) == UserChat(UserOf(s))
\* lines 145, 185, 220, 259: chat_id = subscription.owner_id
NoticeRecipient(s) == OwnerOf(s)

Logged(p, e) == [recLog EXCEPT ![p] = Append(@, e)]
Touched(p)   == [passCalls EXCEPT ![p] = @ \cup {cur(p)}]

NextRecord_abort(p, st) ==
    /\ pc' = [pc EXCEPT ![p] = "idle"]
    /\ h_end' = [h_end EXCEPT ![p] = Append(@, [at |-> fetchAt[p], status |-> st])]
    /\ UNCHANGED idx

\* the end of one iteration of `for subscription in expired_subs` (every
\* `continue`, and the end of the loop body); st is the table after the step
NextRecord(p, st) ==
    /\ idx' = [idx EXCEPT ![p] = @ + 1]
    /\ IF idx[p] = Len(batch[p])
       THEN /\ pc' = [pc EXCEPT ![p] = "idle"]
            /\ h_end' = [h_end EXCEPT ![p] = Append(@, [at |-> fetchAt[p], status |-> st])]
       ELSE /\ pc' = [pc EXCEPT ![p] = "resolve"]
            /\ UNCHANGED h_end

\* lines 112-125: the query, the early return on an empty batch
StartSweep(p) ==
    /\ pc[p] \in {"idle", "handed"}
    /\ runs[p] < MaxRuns
    /\ runs' = [runs EXCEPT ![p] = @ + 1]
    /\ fetchAt' = [fetchAt EXCEPT ![p] = now]
    /\ LET rows == get_expired_subscriptions(subStatus, subEnd, now) IN
       /\ batch' = [batch EXCEPT ![p] = rows]
       /\ idx' = [idx EXCEPT ![p] = 1]
       /\ IF rows = <<>>
          THEN /\ h_end' = [h_end EXCEPT ![p] = Append(@, [at |-> now, status |-> subStatus])]
               /\ pc' = [pc EXCEPT ![p] = "idle"]
          ELSE /\ pc' = [pc EXCEPT ![p] = "resolve"]
               /\ UNCHANGED h_end
    /\ noBan' = [noBan EXCEPT ![p] = {}]
    /\ recLog' = [recLog EXCEPT ![p] = <<>>]
    /\ preNoRight' = [preNoRight EXCEPT ![p] = [c \in Channels |-> 0]]
    /\ passCalls' = [passCalls EXCEPT ![p] = {}]
    /\ noticed' = [noticed EXCEPT ![p] = [c \in Channels |-> 0]]
    /\ botAsked' = [botAsked EXCEPT ![p] = [c \in Channels |-> 0]]
    /\ UNCHANGED <<envVars, storeVars>>
    /\ UNCHANGED nonSweep
    /\ UNCHANGED banLog

NoTarget_never(c) == FALSE
\* line 128: if not premium_channel_id
NoTarget(c) == c = None

\* lines 127-133, 165: the owner's premium channel; no channel: skip the record
Resolve(p) ==
    /\ pc[p] = "resolve"
    /\ recLog' = [recLog EXCEPT ![p] = <<>>]
    /\ \E ok \in StoreOutcomes("sweep") :
        IF ~ok \/ NoTarget(prem(p))
        THEN NextRecord(p, subStatus)
        ELSE /\ pc' = [pc EXCEPT ![p] =
                      IF prem(p) \notin noBan[p] THEN "get_bot" ELSE "cached_update"]
             /\ UNCHANGED <<idx, h_end>>
    /\ UNCHANGED <<envVars, storeVars, batch, noBan, fetchAt, runs, preNoRight, passCalls>>
    /\ UNCHANGED <<nonSweep, noticed>>
    /\ UNCHANGED <<banLog, botAsked>>

RememberNoRight_forgotten(S, c) == S
\* line 138: channels_no_ban_right.add(premium_channel_id)
RememberNoRight(S, c) == S \cup {c}

\* lines 134-142, 162-163: the bot's own membership in the channel
GetBot(p) ==
    /\ pc[p] = "get_bot"
    /\ \E r \in Answer(<<"get_bot", prem(p), BotId>>, BotAnswers) :
        /\ tpMemo' = Remember(<<"get_bot", prem(p), BotId>>, r)
        /\ recLog' = Logged(p, <<"get_bot", prem(p), BotId, r>>)
        /\ botAsked' = [botAsked EXCEPT ![p][prem(p)] = @ + 1]
        /\ IF BotLacksRestrict(r)
           THEN /\ noBan' = [noBan EXCEPT ![p] = RememberNoRight(@, prem(p))]
                /\ preNoRight' = [preNoRight EXCEPT ![p][prem(p)] = idx[p]]
                /\ pc' = [pc EXCEPT ![p] = "noright_notify"]
           ELSE /\ pc' = [pc EXCEPT ![p] = "get_member"]
                /\ UNCHANGED <<noBan, preNoRight>>
    /\ UNCHANGED <<now, tpFixed, storeVars, batch, idx, fetchAt, runs, passCalls, h_end>>
    /\ UNCHANGED <<nonSweep, noticed>>
    /\ UNCHANGED banLog

\* lines 143-157: the missing-capability notice, its failure ignored
NoRightNotify(p) ==
    /\ pc[p] = "noright_notify"
    /\ \E r \in SendAnswers :
        recLog' = Logged(p, <<"send", NoticeRecipient(cur(p)), "no_ban_right", r>>)
    /\ noticed' = [noticed EXCEPT ![p][prem(p)] = @ + 1]
    /\ passCalls' = Touched(p)
    /\ pc' = [pc EXCEPT ![p] = "noright_update"]
    /\ UNCHANGED <<envVars, storeVars, batch, idx, noBan, fetchAt, runs, preNoRight, h_end>>
    /\ UNCHANGED nonSweep
    /\ UNCHANGED <<banLog, botAsked>>

\* lines 158-161 (after the notice) and 165-169 (channel already known)
MarkBannedNoRight(p) ==
    /\ pc[p] \in {"noright_update", "cached_update"}
    /\ \E ok \in StoreOutcomes("sweep") :
        subStatus' = Written(ok, update_subscription_status(
                         subStatus, UserOf(cur(p)), ChannelOf(cur(p)), "banned"), subStatus)
    /\ recLog' = Logged(p, <<"update", UserOf(cur(p)), ChannelOf(cur(p)), "banned">>)
    /\ NextRecord(p, subStatus')
    /\ UNCHANGED <<envVars, subEnd, stFault, batch, noBan, fetchAt, runs, preNoRight, passCalls>>
    /\ UNCHANGED <<nonSweep, noticed>>
    /\ UNCHANGED <<banLog, botAsked>>

\* lines 172-175, 199-200: the expired user's role in the channel
GetMember(p) ==
    /\ pc[p] = "get_member"
    /\ \E r \in Answer(<<"get_member", prem(p), UserOf(cur(p))>>, MemberAnswers) :
        /\ tpMemo' = Remember(<<"get_member", prem(p), UserOf(cur(p))>>, r)
        /\ recLog' = Logged(p, <<"get_member", prem(p), UserOf(cur(p)), r>>)
        /\ pc' = [pc EXCEPT ![p] =
                 IF IsUntouchable(r) THEN "untouch_update" ELSE "ban"]
    /\ UNCHANGED <<now, tpFixed, storeVars, batch, idx, noBan, fetchAt, runs,
                   preNoRight, passCalls, h_end>>
    /\ UNCHANGED <<nonSweep, noticed>>
    /\ UNCHANGED <<banLog, botAsked>>

\* lines 180-182: an administrator or the creator is marked banned
UntouchableUpdate(p) ==
    /\ pc[p] = "untouch_update"
    /\ \E ok \in StoreOutcomes("sweep") :
        subStatus' = Written(ok, update_subscription_status(
                         subStatus, UserOf(cur(p)), ChannelOf(cur(p)), "banned"), subStatus)
    /\ recLog' = Logged(p, <<"update", UserOf(cur(p)), ChannelOf(cur(p)), "banned">>)
    /\ pc' = [pc EXCEPT ![p] = "untouch_notify"]
    /\ UNCHANGED <<envVars, subEnd, stFault, batch, idx, noBan, fetchAt, runs, preNoRight,
                   passCalls, h_end>>
    /\ UNCHANGED <<nonSweep, noticed>>
    /\ UNCHANGED <<banLog, botAsked>>

\* lines 183-198: the remove-manually notice, its failure ignored
UntouchableNotify(p) ==
    /\ pc[p] = "untouch_notify"
    /\ \E r \in SendAnswers :
        recLog' = Logged(p, <<"send", NoticeRecipient(cur(p)), "remove_manually", r>>)
    /\ passCalls' = Touched(p)
    /\ NextRecord(p, subStatus)
    /\ UNCHANGED <<envVars, storeVars, batch, noBan, fetchAt, runs, preNoRight>>
    /\ UNCHANGED <<nonSweep, noticed>>
    /\ UNCHANGED <<banLog, botAsked>>

\* what the handler of a lacking-rights TelegramBadRequest does with the
\* record's status (lines 208-233): nothing, it goes on to the next record
LateNoRightStatus(st, u, c) == st

IsLackingRights_any_bad_request(r) == r \in {"lacking_rights", "bad_request"}
\* line 210: a TelegramBadRequest whose text has "not enough rights" or "restrict"
IsLackingRights(r) == r = "lacking_rights"

RememberLate_forgotten(S, c) == S
\* line 212: channels_no_ban_right.add(premium_channel_id)
RememberLate(S, c) == S \cup {c}

BanOkNext_no_status_write == "notify"
\* lines 235-238: what follows a ban_chat_member that returned
BanOkNext == "update"

\* lines 203-233, 269-277: ban_chat_member and its exception handlers
Ban(p) ==
    /\ pc[p] = "ban"
    /\ \E r \in Answer(<<"ban", prem(p), UserOf(cur(p))>>, BanAnswers) :
        /\ tpMemo' = Remember(<<"ban", prem(p), UserOf(cur(p))>>, r)
        /\ recLog' = Logged(p, <<"ban", prem(p), UserOf(cur(p)), r>>)
        /\ passCalls' = Touched(p)
        /\ banLog' = [banLog EXCEPT ![cur(p)].removed = IF r = "ok" THEN @ + 1 ELSE @]
        /\ UNCHANGED botAsked
        /\ CASE r = "ok" ->
                 /\ pc' = [pc EXCEPT ![p] = BanOkNext]
                 /\ UNCHANGED <<noBan, idx, h_end>>
             [] r # "ok" /\ IsLackingRights(r) ->
                 /\ noBan' = [noBan EXCEPT ![p] = RememberLate(@, prem(p))]
                 /\ IF prem(p) \notin noBan[p]
                    THEN /\ pc' = [pc EXCEPT ![p] = "late_notify"]
                         /\ UNCHANGED <<idx, h_end>>
                    ELSE NextRecord(p, subStatus)
             [] OTHER ->
                 /\ NextRecord(p, subStatus)
                 /\ UNCHANGED noBan
    /\ UNCHANGED <<now, tpFixed, storeVars, batch, fetchAt, runs, preNoRight>>
    /\ UNCHANGED <<nonSweep, noticed>>

\* lines 217-233: the notice for a channel first found lacking by the ban call
LateNotify(p) ==
    /\ pc[p] = "late_notify"
    /\ \E r \in SendAnswers :
        recLog' = Logged(p, <<"send", NoticeRecipient(cur(p)), "no_ban_right", r>>)
    /\ noticed' = [noticed EXCEPT ![p][prem(p)] = @ + 1]
    /\ subStatus' = LateNoRightStatus(subStatus, UserOf(cur(p)), ChannelOf(cur(p)))
    /\ NextRecord(p, subStatus')
    /\ UNCHANGED <<envVars, subEnd, stFault, batch, noBan, fetchAt, runs, preNoRight, passCalls>>
    /\ UNCHANGED nonSweep
    /\ UNCHANGED <<banLog, botAsked>>

\* lines 235-238: the status write after a successful removal
Update(p) ==
    /\ pc[p] = "update"
    /\ \E ok \in StoreOutcomes("sweep") :
        subStatus' = Written(ok, update_subscription_status(
                         subStatus, UserOf(cur(p)), ChannelOf(cur(p)), "banned"), subStatus)
    /\ recLog' = Logged(p, <<"update", UserOf(cur(p)), ChannelOf(cur(p)), "banned">>)
    /\ pc' = [pc EXCEPT ![p] = "notify"]
    /\ UNCHANGED <<envVars, subEnd, stFault, batch, idx, noBan, fetchAt, runs, preNoRight,
                   passCalls, h_end>>
    /\ UNCHANGED <<nonSweep, noticed>>
    /\ UNCHANGED <<banLog, botAsked>>

\* lines 240-263, 269-277: the auto-ban notice with the undo button; an
\* exception of send_message ends the iteration before the pause
Notify(p) ==
    /\ pc[p] = "notify"
    /\ \E r \in SendAnswers :
        /\ recLog' = Logged(p, <<"send", NoticeRecipient(cur(p)), "auto_ban_undo", r>>)
        /\ banLog' = [banLog EXCEPT ![cur(p)].notices = IF r = "ok" THEN @ + 1 ELSE @]
        /\ IF r = "ok"
           THEN /\ pc' = [pc EXCEPT ![p] = "sleep"]
                /\ UNCHANGED <<idx, h_end>>
           ELSE NextRecord(p, subStatus)
    /\ passCalls' = Touched(p)
    /\ UNCHANGED botAsked
    /\ UNCHANGED <<envVars, storeVars, batch, noBan, fetchAt, runs, preNoRight>>
    /\ UNCHANGED <<nonSweep, noticed>>

\* lines 266-267: await asyncio.sleep(1)
Pause(p) ==
    /\ pc[p] = "sleep"
    /\ NextRecord(p, subStatus)
    /\ UNCHANGED <<envVars, storeVars, batch, noBan, fetchAt, runs, recLog,
                   preNoRight, passCalls>>
    /\ UNCHANGED <<nonSweep, noticed>>
    /\ UNCHANGED <<banLog, botAsked>>

\* handle_chat_member_update, events.py 161-171: a member leaves the premium
\* channel of their subscription: status left
UserLeaves(s) ==
    /\ subStatus[s] = "active"
    /\ subStatus' = update_subscription_status(subStatus, UserOf(s), ChannelOf(s), "left")
    /\ UNCHANGED <<envVars, subEnd, stFault, sweepVars, nonSweep>>

\* the undo-ban button, admin_bans.py 96-105: unban_chat_member, status left
UndoBan(s) ==
    /\ subStatus[s] = "banned"
    /\ subStatus' = update_subscription_status(subStatus, UserOf(s), ChannelOf(s), "left")
    /\ UNCHANGED <<envVars, subEnd, stFault, sweepVars, nonSweep>>

\* the `type` column of the channels table
ChannelType(c) == IF c = "cf" THEN "free" ELSE "premium"

\* SubscriptionManager.create_subscription, models.py 610-662: INSERT OR
\* REPLACE of the row (user_id, channel_id) with status active and end date e
create_subscription(st, en, s, e) ==
    [status |-> [st EXCEPT ![s] = "active"], end |-> [en EXCEPT ![s] = e]]

\* handle_chat_member_update, events.py 142-157: a user joins a free channel;
\* the lead is stored with tier free and end date 9999-12-31
FreeJoin(s) ==
    /\ ChannelType(ChannelOf(s)) = "free"
    /\ LET T == create_subscription(subStatus, subEnd, s, FarFuture) IN
       /\ subStatus' = T.status
       /\ subEnd' = T.end
    /\ UNCHANGED <<envVars, stFault, sweepVars, nonSweep>>

\* SubscriptionManager.update_subscription_details, models.py 1052-1096:
\*   UPDATE subscriptions SET end_date = e WHERE user_id = u AND channel_id = c
update_subscription_details(en, u, c, e) ==
    [s \in SubIds |-> IF UserOf(s) = u /\ ChannelOf(s) = c THEN e ELSE en[s]]

\* an end date after the last value of the clock
LaterEnd == MaxTime + 1

\* the owner moves the end date of a subscription (admin_edit.py 158-160,
\* dashboard.py 366-370)
Extend(s) ==
    /\ subEnd[s] # LaterEnd
    /\ subEnd' = update_subscription_details(subEnd, UserOf(s), ChannelOf(s), LaterEnd)
    /\ UNCHANGED <<envVars, subStatus, stFault, sweepVars, nonSweep>>

\* the owner grants the subscription again (admin_subs.py 229, 362)
Regrant(s) ==
    /\ subStatus[s] # "active" \/ subEnd[s] # LaterEnd
    /\ LET T == create_subscription(subStatus, subEnd, s, LaterEnd) IN
       /\ subStatus' = T.status
       /\ subEnd' = T.end
    /\ UNCHANGED <<envVars, stFault, sweepVars, nonSweep>>

(***************************************************************************)
(* The owner's buttons: callback queries and the handlers that take them.  *)
(* A callback_data string is held as its parts between the underscores.    *)
(***************************************************************************)
\* admin_bans.py 53: f"unban_{uid}_{ch_id}", the button of the /bans list
ban_list_button(s) == <<"unban", ToString(UserOf(s)), ChannelOf(s)>>
\* dashboard.py 213: f"unban_user_{user_id}_{channel_id}"
dashboard_button(s) == <<"unban", "user", ToString(UserOf(s)), ChannelOf(s)>>
\* scheduler.py 254: f"undo_ban_{user_id}_{channel_id}_{owner_id}", the button
\* of the auto-ban notice
undo_button(s) == <<"undo", "ban", ToString(UserOf(s)), ChannelOf(s), OwnerOf(s)>>

\* F.data.startswith(prefix + "_")
StartsWith(d, prefix) ==
    /\ Len(d) > Len(prefix)
    /\ SubSeq(d, 1, Len(prefix)) = prefix

\* the callback_query handlers of the routers in the order of
\* include_router (bot.py 109-122): dashboard_router before
\* admin_bans_router; no other filter of the routers accepts these strings
Route(d) ==
    CASE StartsWith(d, <<"unban", "user">>) -> "unban_user"
      [] StartsWith(d, <<"unban">>)         -> "handle_unban_callback"
      [] OTHER                              -> "unhandled"

\* int(parts[k]) for a user id
ParseUser(t) == CHOOSE u \in Users : ToString(u) = t
\* the parts a handler reads: unban_user parts[2], parts[3];
\* handle_unban_callback parts[1], parts[2] (counted from 0)
TargetUser(h, d)    == ParseUser(IF h = "unban_user" THEN d[3] ELSE d[2])
TargetChannel_cb(h, d) == IF h = "unban_user" THEN d[4] ELSE d[3]

unban_status_active(h) == "active"
\* admin_bans.py 105, dashboard.py 244: the status written after the unban
unban_status(h) == "left"

\* the buttons the owner has: the lists show the banned records, a
\* delivered auto-ban notice carries its undo button
Buttons ==
    {ban_list_button(s) : s \in {x \in SubIds : subStatus[x] = "banned"}}
        \cup {dashboard_button(s) : s \in {x \in SubIds : subStatus[x] = "banned"}}
        \cup {undo_button(s) : s \in {x \in SubIds : banLog[x].notices >= 1}}

\* the answers of bot.unban_chat_member: returns or raises
UnbanAnswers == {"ok", "error"}

\* the owner presses a button: the callback query goes to the first handler
\* whose filter accepts it (admin_bans.py 82-125, dashboard.py 226-255), or
\* to none
Press(d) ==
    LET h == Route(d) IN
    /\ d \in Buttons
    /\ IF h = "unhandled"
       THEN /\ pressed' = [data |-> d, handler |-> h, unban |-> "none"]
            /\ UNCHANGED subStatus
       ELSE \E r \in UnbanAnswers :
            /\ pressed' = [data |-> d, handler |-> h, unban |-> r]
            /\ subStatus' = update_subscription_status(
                                subStatus, TargetUser(h, d), TargetChannel_cb(h, d),
                                unban_status(h))
    /\ UNCHANGED <<envVars, subEnd, stFault, sweepVars, pubVars, leadVars, schedVars, table, call>>

(***************************************************************************)
(* The subscriptions table as the SQL statements see it: a bag of rows.    *)
(* PRIMARY KEY (user_id, channel_id), connection.py 172-185 and 419-431.   *)
(***************************************************************************)
TableUsers    == {1, 2}
TableChannels == {"c1", "c2"}
TableOwners   == {"o1", "o2"}
TableDays     == {1, 2}
Key(r) == <<r.user_id, r.channel_id>>
TableRows(t, k) == {r \in BagToSet(t) : Key(r) = k}

\* an INSERT with no conflict clause on a table with no key
insert_plain(t, r) == t (+) SetToBag({r})

\* INSERT OR REPLACE INTO subscriptions (sqlite), INSERT ... ON CONFLICT
\* (user_id, channel_id) DO UPDATE (postgres), models.py 638-651: the rows
\* that hold the key of the new row go, the new row comes
insert_or_replace(t, r) ==
    LET kept == {x \in BagToSet(t) : Key(x) # Key(r)}
    IN  [x \in kept |-> t[x]] (+) SetToBag({r})

\* UPDATE subscriptions SET status = ? WHERE user_id = ? AND channel_id = ?,
\* models.py 894-912, on the bag of rows
update_status_where(t, k, v) ==
    LET set(x) == IF Key(x) = k THEN [x EXCEPT !.status = v] ELSE x
    IN  BagOfAll(set, t)

\* final_end_date of create_subscription, models.py 629-636
final_end_date(how, v) ==
    CASE how = "end_date" -> v
      [] how = "duration_days" -> now + v
      [] OTHER -> None

\* SubscriptionManager.create_subscription, models.py 610-662, as a call of
\* admin_subs.py 229 / 362 or events.py 149 makes it
CreateSubscription(u, o, c, how, v) ==
    LET k == <<u, c>>
        was == IF TableRows(table, k) = {} THEN "none"
               ELSE (CHOOSE r \in TableRows(table, k) : TRUE).status
    IN
    /\ call.n < MaxCalls
    /\ IF how = "neither"
       THEN /\ UNCHANGED table
            /\ call' = [n |-> call.n + 1, key |-> k, owner_id |-> o, end_date |-> 0,
                        ok |-> FALSE, was |-> was]
       ELSE /\ table' = insert_or_replace(table,
                            [user_id |-> u, owner_id |-> o, channel_id |-> c,
                             end_date |-> final_end_date(how, v), status |-> "active"])
            /\ call' = [n |-> call.n + 1, key |-> k, owner_id |-> o,
                        end_date |-> final_end_date(how, v), ok |-> TRUE, was |-> was]
    /\ UNCHANGED <<envVars, storeVars, sweepVars, pubVars, leadVars, schedVars, pressed>>

\* update_subscription_status on a row of the table: the sweep (banned) or a
\* leave / manual unban (left)
MarkRow(k, v) ==
    /\ TableRows(table, k) # {}
    /\ table' = update_status_where(table, k, v)
    /\ table' # table
    /\ UNCHANGED <<envVars, storeVars, sweepVars, pubVars, leadVars, schedVars, pressed, call>>

SweepStep(p) ==
    \/ StartSweep(p)
    \/ Resolve(p)
    \/ GetBot(p)
    \/ NoRightNotify(p)
    \/ MarkBannedNoRight(p)
    \/ GetMember(p)
    \/ UntouchableUpdate(p)
    \/ UntouchableNotify(p)
    \/ Ban(p)
    \/ LateNotify(p)
    \/ Update(p)
    \/ Notify(p)
    \/ Pause(p)

(***************************************************************************)
(* The publication pipeline: BotScheduler.publish_scheduled_posts.         *)
(***************************************************************************)
\* rows of `scheduled_posts`: owner, channel_id (None: no channel reference),
\* content type, publish date
PostTable ==
    <<[owner |-> "o2", channel |-> "c2", ctype |-> "unknown", date |-> 0],
      [owner |-> "o3", channel |-> None, ctype |-> "video",   date |-> 0],
      [owner |-> "o1", channel |-> "c3", ctype |-> "text",    date |-> 0],
      [owner |-> "o1", channel |-> None, ctype |-> "photo",   date |-> 1]>>

PostIds == 1..NumPosts
PostRow(x)     == PostTable[((x - 1) % Len(PostTable)) + 1]
PostOwner(x)   == PostRow(x).owner
PostChannel(x) == PostRow(x).channel
PostType(x)    == PostRow(x).ctype
PostDate(x)    == PostRow(x).date

\* the interval job and the DateTrigger job of schedule_single_post
Publishers == {"interval_job", "single_post_job"}

RECURSIVE ByDate(_)
\* ORDER BY publish_date ASC
ByDate(S) ==
    IF S = {} THEN <<>>
    ELSE LET m == CHOOSE x \in S :
                    \A y \in S : PostDate(x) < PostDate(y) \/ (PostDate(x) = PostDate(y) /\ x <= y)
         IN  <<m>> \o ByDate(S \ {m})

get_posts_to_publish_any_status(st, t) ==
    ByDate({x \in PostIds : PostDate(x) <= t})
\* PostManager.get_posts_to_publish:
\*   SELECT * FROM scheduled_posts WHERE status = 'pending' AND publish_date <= now
get_posts_to_publish(st, t) ==
    ByDate({x \in PostIds : st[x] = "pending" /\ PostDate(x) <= t})

update_post_status_noop(st, x, v) == st
\* PostManager.update_post_status: UPDATE scheduled_posts SET status = v WHERE post_id = x
update_post_status(st, x, v) == [st EXCEPT ![x] = v]

KnownTypes_with_unknown == {"text", "photo", "video", "document", "sticker", "unknown"}
\* send_post_to_channel, lines 279-314: the content types with a send operation
KnownTypes == {"text", "photo", "video", "document", "sticker"}

pcur(p) == pbatch[p][pidx[p]]

TargetChannel_premium_first(x) ==
    IF get_premium_channel_id(PostOwner(x)) # None
    THEN get_premium_channel_id(PostOwner(x)) ELSE PostChannel(x)
\* lines 304-313: the channel of the post, else the owner's premium channel
TargetChannel(x) ==
    IF PostChannel(x) # None THEN PostChannel(x)
    ELSE get_premium_channel_id(PostOwner(x))

\* lines 304-309: the first await of an iteration is the lookup of the owner's
\* premium channel when the post has no channel reference, else the send
PostEntry(x) == IF PostChannel(x) # None THEN "send" ELSE "lookup"

\* the end of one iteration of `for post in posts_to_publish`; k: the sends
\* since the last pause, if the run goes on
NextPost(p, k) ==
    /\ pidx' = [pidx EXCEPT ![p] = @ + 1]
    /\ sincePause' = [sincePause EXCEPT ![p] = IF pidx[p] = Len(pbatch[p]) THEN 0 ELSE k]
    /\ ppc' = [ppc EXCEPT ![p] =
                 IF pidx[p] = Len(pbatch[p]) THEN "idle" ELSE PostEntry(pbatch[p][pidx[p] + 1])]

\* lines 288-301: the query, the early return on an empty batch
Fetch(p) ==
    LET rows == get_posts_to_publish(postStatus, now) IN
    /\ pbatch' = [pbatch EXCEPT ![p] = rows]
    /\ pidx' = [pidx EXCEPT ![p] = 1]
    /\ psnap' = [psnap EXCEPT ![p] = [at |-> now, status |-> postStatus]]
    /\ pSent' = [pSent EXCEPT ![p] = {}]
    /\ sincePause' = [sincePause EXCEPT ![p] = 0]
    /\ ppc' = [ppc EXCEPT ![p] = IF rows = <<>> THEN "idle" ELSE PostEntry(rows[1])]

\* the interval job fires: publish_scheduled_posts
StartPublish(p) ==
    /\ ppc[p] \in {"idle", "handed"}
    /\ pruns[p] < MaxRuns
    /\ pruns' = [pruns EXCEPT ![p] = @ + 1]
    /\ Fetch(p)
    /\ UNCHANGED <<now, postStatus, ptarget, dispatched, sentTo>>
    /\ UNCHANGED nonPub

\* publish_single_post, lines 433-438: the job of post x fires; it returns
\* when x is not among the due pending posts
SingleCheck(p) ==
    /\ ppc[p] = "idle"
    /\ pruns[p] < MaxRuns
    /\ pruns' = [pruns EXCEPT ![p] = @ + 1]
    /\ \E x \in PostIds :
        LET found == \E i \in 1..Len(get_posts_to_publish(postStatus, now)) :
                         get_posts_to_publish(postStatus, now)[i] = x
        IN  /\ ptarget' = IF found THEN x ELSE None
            /\ ppc' = [ppc EXCEPT ![p] = IF found THEN "single_run" ELSE "idle"]
    /\ UNCHANGED <<now, postStatus, pbatch, pidx, psnap, pSent, dispatched, sentTo, sincePause>>
    /\ UNCHANGED nonPub

\* publish_single_post, line 441: await self.publish_scheduled_posts();
\* post_id is not read again
SingleRun(p) ==
    /\ ppc[p] = "single_run"
    /\ Fetch(p)
    /\ ptarget' = None
    /\ UNCHANGED <<now, postStatus, pruns, dispatched, sentTo>>
    /\ UNCHANGED nonPub

\* lines 307-312: the owner's premium channel for a post without a channel
LookupChannel(p) ==
    /\ ppc[p] = "lookup"
    /\ \E ok \in StoreOutcomes("publication") :
        ppc' = [ppc EXCEPT ![p] =
                  IF ~ok \/ get_premium_channel_id(PostOwner(pcur(p))) = None
                  THEN "fail_no_channel" ELSE "send"]
    /\ UNCHANGED <<now, postStatus, pbatch, pidx, ptarget, pruns, psnap, pSent, dispatched, sentTo, sincePause>>
    /\ UNCHANGED nonPub

\* lines 309-312: no channel resolves: failed, next post
FailNoChannel(p) ==
    /\ ppc[p] = "fail_no_channel"
    /\ \E ok \in StoreOutcomes("publication") :
        postStatus' = Written(ok, update_post_status(postStatus, pcur(p), "failed"), postStatus)
    /\ NextPost(p, sincePause[p])
    /\ UNCHANGED <<now, pbatch, ptarget, pruns, psnap, pSent, dispatched, sentTo>>
    /\ UNCHANGED nonPub

\* lines 328-330 and send_post_to_channel: an unknown content type returns
\* False without a transport call; a transport call returns (True) or raises (False)
SendPost(p) ==
    /\ ppc[p] = "send"
    /\ IF PostType(pcur(p)) \notin KnownTypes
       THEN /\ ppc' = [ppc EXCEPT ![p] = "mark_failed"]
            /\ UNCHANGED <<pSent, dispatched, sentTo, sincePause>>
       ELSE /\ pSent' = [pSent EXCEPT ![p] = @ \cup {pcur(p)}]
            /\ dispatched' = [dispatched EXCEPT ![pcur(p)] = @ + 1]
            /\ sentTo' = [sentTo EXCEPT ![pcur(p)] = @ \cup {TargetChannel(pcur(p))}]
            /\ sincePause' = [sincePause EXCEPT ![p] = @ + 1]
            /\ \E r \in SendAnswers :
                ppc' = [ppc EXCEPT ![p] = IF r = "ok" THEN "mark_sent" ELSE "mark_failed"]
    /\ UNCHANGED <<now, postStatus, pbatch, pidx, ptarget, pruns, psnap>>
    /\ UNCHANGED nonPub

\* lines 332-334: success: status sent
MarkSent(p) ==
    /\ ppc[p] = "mark_sent"
    /\ \E ok \in StoreOutcomes("publication") :
        postStatus' = Written(ok, update_post_status(postStatus, pcur(p), "sent"), postStatus)
    /\ ppc' = [ppc EXCEPT ![p] = "channel_name"]
    /\ UNCHANGED <<now, pbatch, pidx, ptarget, pruns, psnap, pSent, dispatched, sentTo, sincePause>>
    /\ UNCHANGED nonPub

\* lines 336-348: the channel title, from storage or the transport, errors ignored
ChannelName(p) ==
    /\ ppc[p] = "channel_name"
    /\ ppc' = [ppc EXCEPT ![p] = "confirm"]
    /\ UNCHANGED <<now, postStatus, pbatch, pidx, ptarget, pruns, psnap, pSent, dispatched, sentTo, sincePause>>
    /\ UNCHANGED nonPub

\* lines 364-377, 385-386: the confirmation to the owner; when send_message
\* raises, the handler of line 385 takes over
Confirm(p) ==
    /\ ppc[p] = "confirm"
    /\ \E r \in SendAnswers :
        ppc' = [ppc EXCEPT ![p] = IF r = "ok" THEN "sleep" ELSE "except_failed"]
    /\ UNCHANGED <<now, postStatus, pbatch, pidx, ptarget, pruns, psnap, pSent, dispatched, sentTo, sincePause>>
    /\ UNCHANGED nonPub

\* lines 379-381: send_post_to_channel returned False: status failed
MarkFailed(p) ==
    /\ ppc[p] = "mark_failed"
    /\ \E ok \in StoreOutcomes("publication") :
        postStatus' = Written(ok, update_post_status(postStatus, pcur(p), "failed"), postStatus)
    /\ ppc' = [ppc EXCEPT ![p] = "sleep"]
    /\ UNCHANGED <<now, pbatch, pidx, ptarget, pruns, psnap, pSent, dispatched, sentTo, sincePause>>
    /\ UNCHANGED nonPub

\* lines 385-388: except Exception: status failed, continue
ExceptFailed(p) ==
    /\ ppc[p] = "except_failed"
    /\ \E ok \in StoreOutcomes("publication") :
        postStatus' = Written(ok, update_post_status(postStatus, pcur(p), "failed"), postStatus)
    /\ NextPost(p, sincePause[p])
    /\ UNCHANGED <<now, pbatch, ptarget, pruns, psnap, pSent, dispatched, sentTo>>
    /\ UNCHANGED nonPub

\* line 383: await asyncio.sleep(2)
PostPause(p) ==
    /\ ppc[p] = "sleep"
    /\ NextPost(p, 0)
    /\ UNCHANGED <<now, postStatus, pbatch, ptarget, pruns, psnap, pSent, dispatched, sentTo>>
    /\ UNCHANGED nonPub

PubStep(p) ==
    \/ LookupChannel(p)
    \/ FailNoChannel(p)
    \/ SendPost(p)
    \/ MarkSent(p)
    \/ ChannelName(p)
    \/ Confirm(p)
    \/ MarkFailed(p)
    \/ ExceptFailed(p)
    \/ PostPause(p)

(***************************************************************************)
(* The lead notifier: the throttle of handle_free_channel_join.            *)
(***************************************************************************)
_LEAD_MIN_INTERVAL   == 2    \* seconds between two notices to one owner
_LEAD_MAX_PER_MINUTE == 25   \* notices to one owner per minute
LeadWindow           == 60   \* the span of _lead_notify_timestamps, seconds

LeadCallers == 1..NumCallers
LeadOwners  == {"o2", "o3"}
\* time.time() is far from 0, the default of _lead_notify_last_ts.get: the
\* clock of the notifier starts where a first call finds no recent send
Epoch == LeadWindow

\* the lengths of the idle gaps
GapChoices == {1, LeadWindow - 2 * (_LEAD_MAX_PER_MINUTE - 1), LeadWindow}

Prune_keep_all(w, t) == w
\* lines 260-262: [t for t in timestamps if t > now - 60]
Prune(w, t) == SelectSeq(w, LAMBDA x : x > t - LeadWindow)

AtCeiling_off_by_one(w) == Len(w) > _LEAD_MAX_PER_MINUTE
\* line 263: len(timestamps) >= _LEAD_MAX_PER_MINUTE
AtCeiling(w) == Len(w) >= _LEAD_MAX_PER_MINUTE

SleepFor_half(t, last) == IF t - last < _LEAD_MIN_INTERVAL THEN 1 ELSE 0
\* lines 270-272: the delay before the send; 0: no sleep
SleepFor(t, last) ==
    IF t - last < _LEAD_MIN_INTERVAL THEN _LEAD_MIN_INTERVAL - (t - last) ELSE 0

AwaitsBeforeSend_text(c) == TRUE
\* lines 277-290: between the end of `async with` and the call of
\* bot.send_message only strings are built; the call has no await there, so
\* send_message is called in the loop step that recorded the timestamp
AwaitsBeforeSend(c) == FALSE

\* line 290: bot.send_message(chat_id=owner_id, ...) is called by the call
\* with ticket k
CallSend(h, o, k) == [h EXCEPT ![o] = k]

set_last_ts_never(last, o, t) == last
\* line 274: _lead_notify_last_ts[owner_id] = now
set_last_ts(last, o, t) == [last EXCEPT ![o] = t]

LockAtSend_held(c) == {c}
\* lines 275-276: the `async with` block ends after the append, before the
\* text is built and send_message is called: caller c no longer holds the lock
LockAtSend(c) == {}

\* lines 274-275 and the end of `async with`: both slots get the timestamp,
\* the lock is released, the call goes on to send_message
Record(c, o, w, t) ==
    /\ lastTs' = set_last_ts(lastTs, o, t)
    /\ winTs' = [winTs EXCEPT ![o] = Append(w, t)]
    /\ passLog' = [passLog EXCEPT ![o] =
                     Append(SelectSeq(@, LAMBDA x : x > t - LeadWindow), t)]
    /\ nPassed' = [nPassed EXCEPT ![o] = @ + 1]
    /\ lockHolder' = LockAtSend(c)
    /\ wake' = [wake EXCEPT ![c] = 0]
    /\ cowner' = [cowner EXCEPT ![c] = o]
    /\ ticket' = [ticket EXCEPT ![c] = nPassed[o] + 1]
    /\ IF AwaitsBeforeSend(c)
       THEN /\ cpc' = [cpc EXCEPT ![c] = "text"]
            /\ UNCHANGED handed
       ELSE /\ cpc' = [cpc EXCEPT ![c] = "send"]
            /\ handed' = CallSend(handed, o, nPassed[o] + 1)

\* lines 254-275 up to the first await: the body of `async with` when the
\* call gets the lock at time `now`
Throttle(c, o) ==
    LET w == Prune(winTs[o], now)
        d == SleepFor(now, lastTs[o])
    IN  IF AtCeiling(w)
        THEN /\ winTs' = [winTs EXCEPT ![o] = w]
             /\ nSkipped' = [nSkipped EXCEPT ![o] = @ + 1]
             /\ lockHolder' = {}
             /\ cpc' = [cpc EXCEPT ![c] = "idle"]
             /\ cowner' = [cowner EXCEPT ![c] = None]
             /\ UNCHANGED <<lastTs, wake, passLog, nPassed, ticket, handed>>
        ELSE IF d > 0
        THEN /\ winTs' = [winTs EXCEPT ![o] = w]
             /\ wake' = [wake EXCEPT ![c] = now + d]
             /\ lockHolder' = {c}
             /\ cpc' = [cpc EXCEPT ![c] = "sleeping"]
             /\ cowner' = [cowner EXCEPT ![c] = o]
             /\ UNCHANGED <<lastTs, passLog, nPassed, nSkipped, ticket, handed>>
        ELSE /\ Record(c, o, w, now)
             /\ UNCHANGED nSkipped

\* the calls made so far for owner o
CallsOf(o) ==
    nPassed[o] + nSkipped[o]
        + Cardinality({k \in LeadCallers : cpc[k] \in {"wait_lock", "sleeping"} /\ cowner[k] = o})

\* a user joins a free channel of owner o: handle_free_channel_join is
\* called (the call takes the first free slot); it enters the throttle at
\* once when the lock is free and nobody waits for it
Join(c, o) ==
    /\ cpc[c] = "idle"
    /\ \A k \in LeadCallers : cpc[k] = "idle" => c <= k
    /\ nEvents < MaxEvents
    /\ o # "o2" => CallsOf(o) < MaxOther
    /\ nEvents' = nEvents + 1
    /\ IF lockHolder = {} /\ lockQueue = <<>>
       THEN /\ Throttle(c, o)
            /\ UNCHANGED lockQueue
       ELSE /\ lockQueue' = Append(lockQueue, c)
            /\ cpc' = [cpc EXCEPT ![c] = "wait_lock"]
            /\ cowner' = [cowner EXCEPT ![c] = o]
            /\ UNCHANGED <<lockHolder, lastTs, winTs, wake, passLog, nPassed, nSkipped,
                           ticket, handed>>
    /\ UNCHANGED <<now, gapsUsed, nSendCalls>>
    /\ UNCHANGED nonLead

\* the first waiter gets the released lock
Acquire(c) ==
    /\ cpc[c] = "wait_lock"
    /\ lockHolder = {}
    /\ lockQueue # <<>> /\ Head(lockQueue) = c
    /\ lockQueue' = Tail(lockQueue)
    /\ Throttle(c, cowner[c])
    /\ UNCHANGED <<now, nEvents, gapsUsed, nSendCalls>>
    /\ UNCHANGED nonLead

\* lines 272-275: the sleep is over; now = time.time(); both slots are written
WakeUp(c) ==
    /\ cpc[c] = "sleeping"
    /\ now >= wake[c]
    /\ Record(c, cowner[c], winTs[cowner[c]], now)
    /\ UNCHANGED <<now, lockQueue, nEvents, gapsUsed, nSkipped, nSendCalls>>
    /\ UNCHANGED nonLead

\* lines 277-298: bot.send_message to the owner, an exception is logged
SendLead(c) ==
    /\ cpc[c] \in {"text", "send"}
    /\ IF cpc[c] = "text"
       THEN \* the call resumes before line 290 and calls send_message
            /\ handed' = CallSend(handed, cowner[c], ticket[c])
            /\ cpc' = [cpc EXCEPT ![c] = "send"]
            /\ UNCHANGED <<nSendCalls, cowner, ticket>>
       ELSE \* send_message returns or raises
            /\ \E r \in SendAnswers :
                 nSendCalls' = [nSendCalls EXCEPT ![cowner[c]] = @ + 1]
            /\ cpc' = [cpc EXCEPT ![c] = "idle"]
            /\ cowner' = [cowner EXCEPT ![c] = None]
            /\ ticket' = [ticket EXCEPT ![c] = 0]
            /\ UNCHANGED handed
    /\ UNCHANGED <<now, lockHolder, lockQueue, lastTs, winTs, wake, nEvents,
                   gapsUsed, passLog, nPassed, nSkipped>>
    /\ UNCHANGED nonLead

\* the time of a pending asyncio.sleep passes
SleepElapses(c) ==
    /\ cpc[c] = "sleeping"
    /\ now < wake[c]
    /\ now' = wake[c]
    /\ UNCHANGED <<tpFixed, tpMemo, storeVars, sweepVars, pubVars, leadVars, schedVars, cbVars>>

\* time passes while no call is under way
Gap(d) ==
    /\ \A c \in LeadCallers : cpc[c] = "idle"
    /\ gapsUsed < MaxGaps
    /\ gapsUsed' = gapsUsed + 1
    /\ now' = now + d
    /\ UNCHANGED <<lockHolder, lockQueue, lastTs, winTs, cpc, cowner, wake, nEvents,
                   passLog, nPassed, nSkipped, nSendCalls, ticket, handed>>
    /\ UNCHANGED nonLead

(***************************************************************************)
(* The scheduler core: BotScheduler.start, stop, _run_async_job.           *)
(***************************************************************************)
\* the ids of the four add_job calls of start()
JobIds  == {"auto_kick_job", "publish_posts_job", "sfs_daily_job", "sfs_update_members_job"}
SfsJobs == {"sfs_daily_job", "sfs_update_members_job"}

\* the position of the body of job j: check_expired_subscriptions,
\* publish_scheduled_posts, sfs_daily_check, _sfs_update_members_job
BodyPos(j) ==
    CASE j = "auto_kick_job"     -> pc["job"]
      [] j = "publish_posts_job" -> ppc["interval_job"]
      [] OTHER                   -> sfsPc[j]
\* the job bodies handed to the event loop and not finished
InFlight == {j \in JobIds : BodyPos(j) # "idle"}

\* the executions a job may still start in one behaviour
Budget(j) ==
    CASE j = "auto_kick_job"     -> runs["job"] < MaxRuns
      [] j = "publish_posts_job" -> pruns["interval_job"] < MaxRuns
      [] OTHER                   -> TRUE

Awaited_every_body(S) == S
\* _run_async_job, line 95: run_coroutine_threadsafe returns a future that is
\* dropped; of the job bodies S in flight the handler waits for none
Awaited(S) == {}

shutdown_forgotten(running) == running
\* stop, line 103: self.scheduler.shutdown() ends the triggering of the jobs
shutdown(running) == FALSE

\* start(), lines 37-86
Start ==
    /\ IF isRunning
       THEN \* lines 40-42: a warning is logged, the call returns
            /\ lastCall' = "start_ignored"
            /\ UNCHANGED <<isRunning, loopSet, apsRunning, jobs>>
       ELSE \* lines 44-78: the loop, four add_job with replace_existing
            /\ loopSet' = TRUE
            /\ jobs' = jobs \cup JobIds
            /\ IF apsRunning
               THEN \* lines 80, 84-86: scheduler.start() raises, re-raised
                    /\ lastCall' = "start_raised"
                    /\ UNCHANGED <<isRunning, apsRunning>>
               ELSE \* lines 80-81
                    /\ apsRunning' = TRUE
                    /\ isRunning' = TRUE
                    /\ lastCall' = "start_ok"
    /\ stoppedWith' = IF lastCall' = "start_ok" THEN {} ELSE stoppedWith
    /\ UNCHANGED <<sfsPc, ticks, overlapped, sweepVars, pubVars>>
    /\ UNCHANGED nonSched

\* stop(), lines 99-107
Stop ==
    /\ IF isRunning
       THEN IF apsRunning
            THEN \* lines 103-104
                 /\ apsRunning' = shutdown(apsRunning)
                 /\ isRunning' = FALSE
                 /\ lastCall' = "stop_done"
                 /\ stoppedWith' = InFlight
            ELSE \* lines 103, 106-107: shutdown() raises, logged
                 /\ lastCall' = "stop_error"
                 /\ UNCHANGED <<isRunning, apsRunning, stoppedWith>>
       ELSE /\ lastCall' = "stop_ignored"
            /\ UNCHANGED <<isRunning, apsRunning, stoppedWith>>
    /\ UNCHANGED <<loopSet, jobs, sfsPc, ticks, overlapped, sweepVars, pubVars>>
    /\ UNCHANGED nonSched

\* the coroutine of job j is handed to the loop (line 95)
HandOver(j) ==
    CASE j = "auto_kick_job" ->
            /\ pc' = [pc EXCEPT !["job"] = "handed"]
            /\ UNCHANGED <<ppc, sfsPc>>
      [] j = "publish_posts_job" ->
            /\ ppc' = [ppc EXCEPT !["interval_job"] = "handed"]
            /\ UNCHANGED <<pc, sfsPc>>
      [] OTHER ->
            /\ sfsPc' = [sfsPc EXCEPT ![j] = "handed"]
            /\ UNCHANGED <<pc, ppc>>

\* the trigger of job j fires: _run_async_job(coro_func), lines 88-97. The
\* timer of the trigger is the environment: a registered job of a started
\* AsyncIOScheduler may fire at any step.
JobTick(j) ==
    /\ apsRunning
    /\ j \in jobs
    /\ ticks < MaxTicks
    /\ BodyPos(j) = "idle"
    /\ Budget(j)
    /\ Awaited(InFlight \ {j}) = {}
    /\ ticks' = ticks + 1
    /\ IF loopSet
       THEN /\ HandOver(j)
            /\ overlapped' = overlapped \cup {<<j, k>> : k \in InFlight}
       ELSE \* lines 90-92: no loop: logged, nothing handed over
            UNCHANGED <<pc, ppc, sfsPc, overlapped>>
    /\ UNCHANGED <<isRunning, loopSet, apsRunning, jobs, lastCall, stoppedWith>>
    /\ UNCHANGED <<batch, idx, noBan, fetchAt, runs, recLog, preNoRight, passCalls, h_end,
                   noticed, banLog, botAsked>>
    /\ UNCHANGED <<postStatus, pbatch, pidx, ptarget, pruns, psnap, pSent, dispatched,
                   sentTo, sincePause>>
    /\ UNCHANGED nonSched

\* the body of an SFS job runs on the loop: sfs_daily_check, lines 400-408,
\* _sfs_update_members_job, lines 396-398; it reads and writes SFS listings only
SfsBody(j) ==
    /\ sfsPc[j] = "handed"
    /\ sfsPc' = [sfsPc EXCEPT ![j] = "idle"]
    /\ UNCHANGED <<isRunning, loopSet, apsRunning, jobs, ticks, lastCall, overlapped,
                   stoppedWith, sweepVars, pubVars>>
    /\ UNCHANGED nonSched

\* a step of the body of the sweep job, of the publication job, on the loop
SweepBody == pc["job"] # "idle" /\ SweepStep("job")
PublishBody ==
    /\ ppc["interval_job"] # "idle"
    /\ StartPublish("interval_job") \/ PubStep("interval_job")

\* the clock
Tick ==
    /\ now < MaxTime
    /\ now' = now + 1
    /\ UNCHANGED <<tpFixed, tpMemo, storeVars, sweepVars, pubVars, leadVars, schedVars, cbVars>>

(***************************************************************************)
(* Specifications                                                           *)
(***************************************************************************)
InitSweep ==
    /\ pc = [p \in Sweepers |-> "idle"]
    /\ batch = [p \in Sweepers |-> <<>>]
    /\ idx = [p \in Sweepers |-> 1]
    /\ noBan = [p \in Sweepers |-> {}]
    /\ fetchAt = [p \in Sweepers |-> 0]
    /\ runs = [p \in Sweepers |-> 0]
    /\ recLog = [p \in Sweepers |-> <<>>]
    /\ preNoRight = [p \in Sweepers |-> [c \in Channels |-> 0]]
    /\ passCalls = [p \in Sweepers |-> {}]
    /\ h_end = [p \in Sweepers |-> <<>>]
    /\ noticed = [p \in Sweepers |-> [c \in Channels |-> 0]]
    /\ banLog = [s \in SubIds |-> [removed |-> 0, notices |-> 0]]
    /\ botAsked = [p \in Sweepers |-> [c \in Channels |-> 0]]
    /\ pressed = [data |-> <<>>, handler |-> "none", unban |-> "none"]
    /\ table = EmptyBag
    /\ call = [n |-> 0, key |-> <<>>, owner_id |-> None, end_date |-> 0, ok |-> FALSE,
               was |-> "none"]

InitPub ==
    /\ postStatus = [x \in PostIds |-> "pending"]
    /\ ppc = [p \in Publishers |-> "idle"]
    /\ pbatch = [p \in Publishers |-> <<>>]
    /\ pidx = [p \in Publishers |-> 1]
    /\ ptarget = None
    /\ pruns = [p \in Publishers |-> 0]
    /\ psnap = [p \in Publishers |-> [at |-> -1, status |-> [x \in PostIds |-> "pending"]]]
    /\ pSent = [p \in Publishers |-> {}]
    /\ dispatched = [x \in PostIds |-> 0]
    /\ sentTo = [x \in PostIds |-> {}]
    /\ sincePause = [p \in Publishers |-> 0]

InitLead ==
    /\ lockHolder = {}
    /\ lockQueue = <<>>
    /\ lastTs = [o \in LeadOwners |-> 0]
    /\ winTs = [o \in LeadOwners |-> <<>>]
    /\ cpc = [c \in LeadCallers |-> "idle"]
    /\ cowner = [c \in LeadCallers |-> None]
    /\ wake = [c \in LeadCallers |-> 0]
    /\ nEvents = 0
    /\ gapsUsed = 0
    /\ passLog = [o \in LeadOwners |-> <<>>]
    /\ nPassed = [o \in LeadOwners |-> 0]
    /\ nSkipped = [o \in LeadOwners |-> 0]
    /\ nSendCalls = [o \in LeadOwners |-> 0]
    /\ ticket = [c \in LeadCallers |-> 0]
    /\ handed = [o \in LeadOwners |-> 0]

InitSched ==
    /\ isRunning = FALSE
    /\ loopSet = FALSE
    /\ apsRunning = FALSE
    /\ jobs = {}
    /\ sfsPc = [j \in SfsJobs |-> "idle"]
    /\ ticks = 0
    /\ lastCall = "none"
    /\ overlapped = {}
    /\ stoppedWith = {}

\* the interval job alone, one pass after the other
\* the members of the premium channels hold active subscriptions, the other
\* records are of users who have left
InitRows ==
    /\ subStatus = [s \in SubIds |-> IF s \in OnPremium THEN "active" ELSE "left"]
    /\ subEnd = [s \in SubIds |-> InitEnd(s)]
    /\ tpMemo = [k \in MemoKeys |-> "unset"]

InitStore == stFault = "none" /\ InitRows

Init == now = 0 /\ InitStore /\ InitSweep /\ InitPub /\ InitLead /\ InitSched /\ tpFixed = FALSE
Next == SweepStep("job") \/ Tick
Spec == Init /\ [][Next]_vars

\* the sweep over the records that are not on the premium channel of their
\* owner: an owner without a premium channel, a second channel of an owner,
\* a lead of a free channel
InitOffPremium ==
    /\ now = 0
    /\ stFault = "none"
    /\ subStatus = [s \in SubIds |-> IF s \in OnPremium THEN "left" ELSE "active"]
    /\ subEnd = [s \in SubIds |-> InitEnd(s)]
    /\ tpMemo = [k \in MemoKeys |-> "unset"]
    /\ InitSweep /\ InitPub /\ InitLead /\ InitSched /\ tpFixed = FALSE
SpecOffPremium == InitOffPremium /\ [][Next]_vars

\* the sweep while users join the free channels
NextLeads == SweepStep("job") \/ (\E s \in SubIds : FreeJoin(s)) \/ Tick
SpecLeads == Init /\ [][NextLeads]_vars

\* the sweep while owners extend and grant subscriptions
NextRenew ==
    \/ SweepStep("job")
    \/ \E s \in OnPremium : Extend(s)
    \/ \E s \in OnPremium : Regrant(s)
    \/ Tick
SpecRenew == Init /\ [][NextRenew]_vars

\* the sweep while the owner uses the buttons of the lists and of the notices
AllButtons ==
    {ban_list_button(s) : s \in SubIds} \cup {dashboard_button(s) : s \in SubIds}
        \cup {undo_button(s) : s \in SubIds}
NextButtons == SweepStep("job") \/ (\E d \in AllButtons : Press(d)) \/ Tick
\* the first record is active, the second was banned by an earlier pass
InitButtons ==
    /\ now = 0
    /\ stFault = "none"
    /\ subStatus = [s \in SubIds |->
                       IF s \notin OnPremium THEN "left"
                       ELSE IF s = Min(OnPremium) THEN "active" ELSE "banned"]
    /\ subEnd = [s \in SubIds |-> InitEnd(s)]
    /\ tpMemo = [k \in MemoKeys |-> "unset"]
    /\ InitSweep /\ InitPub /\ InitLead /\ InitSched /\ tpFixed = FALSE
SpecButtons == InitButtons /\ [][NextButtons]_vars

\* the grants, the leads and the status updates on the table of rows, at one
\* instant of the clock
NextTable ==
    \/ \E u \in TableUsers, o \in TableOwners, c \in TableChannels,
          how \in {"end_date", "duration_days", "neither"}, v \in TableDays :
          CreateSubscription(u, o, c, how, v)
    \/ \E u \in TableUsers, c \in TableChannels, v \in {"banned", "left"} :
          MarkRow(<<u, c>>, v)
SpecTable == Init /\ [][NextTable]_vars

\* the same with a transport that answers the same call the same way
InitFixed == now = 0 /\ InitStore /\ InitSweep /\ InitPub /\ InitLead /\ InitSched /\ tpFixed = TRUE
SpecFixed == InitFixed /\ [][Next]_vars

\* the publication pipeline: the interval job and a single-post job, which may overlap
NextPub ==
    \/ StartPublish("interval_job")
    \/ SingleCheck("single_post_job")
    \/ SingleRun("single_post_job")
    \/ \E p \in Publishers : PubStep(p)
    \/ Tick
SpecPub == Init /\ [][NextPub]_vars

\* the interval job alone, one run after the other
NextPubSolo == StartPublish("interval_job") \/ PubStep("interval_job") \/ Tick
SpecPubSolo == Init /\ [][NextPubSolo]_vars

\* storage that may fail: the two pipelines share no state but the clock, a
\* behaviour follows the one whose storage calls fail
InitFaulty ==
    /\ now = 0
    /\ stFault \in {"sweep", "publication"}
    /\ InitRows /\ InitSweep /\ InitPub /\ InitLead /\ InitSched /\ tpFixed = FALSE
NextFaulty ==
    \/ stFault = "sweep" /\ SweepStep("job")
    \/ stFault = "publication" /\ StartPublish("interval_job")
    \/ stFault = "publication" /\ PubStep("interval_job")
    \/ Tick
SpecFaulty == InitFaulty /\ [][NextFaulty]_vars

\* the scheduler core: start and stop calls, the triggers of the four jobs,
\* the job bodies on the event loop
NextSched ==
    \/ Start
    \/ Stop
    \/ \E j \in JobIds : JobTick(j)
    \/ SweepBody
    \/ PublishBody
    \/ \E j \in SfsJobs : SfsBody(j)
    \/ Tick
\* the tables after earlier runs: the first subscription is still active,
\* the others were banned by an earlier sweep; the posts that cannot be
\* published were failed by an earlier run
InitSchedRun ==
    /\ now = 0
    /\ stFault = "none"
    /\ subStatus = [s \in SubIds |-> IF s = 1 THEN "active" ELSE "banned"]
    /\ subEnd = [s \in SubIds |-> InitEnd(s)]
    /\ tpMemo = [k \in MemoKeys |-> "unset"]
    /\ tpFixed = FALSE
    /\ InitSweep /\ InitLead /\ InitSched
    /\ postStatus = [x \in PostIds |->
                        IF PostType(x) \in KnownTypes /\ TargetChannel(x) # None
                        THEN "pending" ELSE "failed"]
    /\ ppc = [p \in Publishers |-> "idle"]
    /\ pbatch = [p \in Publishers |-> <<>>]
    /\ pidx = [p \in Publishers |-> 1]
    /\ ptarget = None
    /\ pruns = [p \in Publishers |-> 0]
    /\ psnap = [p \in Publishers |-> [at |-> -1, status |-> [x \in PostIds |-> "pending"]]]
    /\ pSent = [p \in Publishers |-> {}]
    /\ dispatched = [x \in PostIds |-> 0]
    /\ sentTo = [x \in PostIds |-> {}]
    /\ sincePause = [p \in Publishers |-> 0]
SpecSched == InitSchedRun /\ [][NextSched]_vars
\* the event loop runs every coroutine handed to it
SpecSchedLoop ==
    /\ SpecSched
    /\ WF_vars(SweepBody) /\ WF_vars(PublishBody)
    /\ \A j \in SfsJobs : WF_vars(SfsBody(j))

\* the sweep of the interval job while members leave and owners undo bans
NextLifecycle ==
    \/ SweepStep("job")
    \/ \E s \in SubIds : UserLeaves(s)
    \/ \E s \in SubIds : UndoBan(s)
    \/ Tick
SpecLifecycle == Init /\ [][NextLifecycle]_vars

\* the sweep of the interval job and the sweep of /checknow (bot.py,
\* cmd_check_now), both on the event loop: they interleave at every await
NextOverlap ==
    \/ \E p \in Sweepers : SweepStep(p)
    \/ Tick
SpecOverlap == InitSchedRun /\ [][NextOverlap]_vars

\* the lead notifier under concurrent free-channel joins
InitLeadClock == now = Epoch /\ InitStore /\ InitSweep /\ InitPub /\ InitLead /\ InitSched /\ tpFixed = FALSE
NextLead ==
    \/ \E c \in LeadCallers : \E o \in LeadOwners : Join(c, o)
    \/ \E c \in LeadCallers : Acquire(c) \/ WakeUp(c) \/ SendLead(c) \/ SleepElapses(c)
    \/ \E d \in GapChoices : Gap(d)
SpecLead == InitLeadClock /\ [][NextLead]_vars

(***************************************************************************)
(* Properties of the sweep                                                  *)
(***************************************************************************)
\* a sweep execution stands between two records (or after the last one) and
\* recLog holds the calls made for the record it has just handled
RecordDone(p) == pc[p] \in {"resolve", "idle"} /\ recLog[p] # <<>>
\* the record recLog is about
rec(p) == IF pc[p] \in {"resolve", "idle"} THEN batch[p][idx[p] - 1] ELSE cur(p)
Entries(p, op) == {i \in 1..Len(recLog[p]) : recLog[p][i][1] = op}

\* C1. Sweep idempotence. With a transport that answers the same call the same
\* way: a pass that fetches the same snapshot (same `now`) as the pass before it
\* ends with the statuses the pass before it ended with, and a pass makes no
\* ban and no send call for a record that was banned when the pass before it ended.
C1_SweepIdempotent ==
    LET H == h_end["job"] IN
    /\ \A r \in 2..Len(H) : H[r].at = H[r - 1].at => H[r].status = H[r - 1].status
    /\ runs["job"] >= 2 =>
           \A s \in passCalls["job"] : H[runs["job"] - 1].status[s] # "banned"

\* a second pass over the same snapshot that had work to do, after a first
\* pass that banned a record
C1_Witness ==
    LET H == h_end["job"] IN
    /\ Len(H) = 2
    /\ H[2].at = H[1].at
    /\ \E s \in SubIds : H[1].status[s] = "banned"
    /\ passCalls["job"] # {}

\* C4. Enforcement precedence. Once the pre-check of a pass has found the bot
\* an administrator without the ban right on a channel, the pass makes no
\* ban_chat_member call on that channel, and every record of that channel it
\* handles from then on is banned.
C4_EnforcementPrecedence ==
    \A p \in Sweepers :
        /\ \A i \in Entries(p, "ban") : preNoRight[p][recLog[p][i][2]] = 0
        /\ \A j \in 1..(idx[p] - 1) :
              LET c == get_premium_channel_id(OwnerOf(batch[p][j])) IN
              (j <= Len(batch[p]) /\ c # None /\ preNoRight[p][c] # 0 /\ j >= preNoRight[p][c])
                  => subStatus[batch[p][j]] = "banned"

\* a pass has handled a later record of a channel the pre-check found lacking
C4_Witness ==
    \E p \in Sweepers : \E j \in 1..(idx[p] - 1) :
        LET c == get_premium_channel_id(OwnerOf(batch[p][j])) IN
        /\ j <= Len(batch[p]) /\ c # None
        /\ preNoRight[p][c] # 0 /\ j > preNoRight[p][c]

\* C5. Untouchable skip. A record whose user get_chat_member reports as
\* administrator or creator gets no ban_chat_member call; once handled, its
\* status is banned and the remove-manually notice was sent to its owner.
C5_UntouchableSkip ==
    \A p \in Sweepers :
        (\E i \in Entries(p, "get_member") : recLog[p][i][4] \in {"administrator", "creator"})
        => /\ Entries(p, "ban") = {}
           /\ RecordDone(p) =>
                 /\ subStatus[rec(p)] = "banned"
                 /\ \E i \in Entries(p, "send") :
                       /\ recLog[p][i][2] = OwnerOf(rec(p))
                       /\ recLog[p][i][3] = "remove_manually"

C5_Witness ==
    \E p \in Sweepers :
        /\ RecordDone(p)
        /\ \E i \in Entries(p, "get_member") : recLog[p][i][4] = "creator"

\* the calls made for the record after the two pre-checks
AfterChecks(p) == SubSeq(recLog[p], 3, Len(recLog[p]))
\* the record is one of a regular member, on the owner's enforcement channel,
\* where the bot is an administrator with the ban right
FullRightsMember(p) ==
    /\ Len(recLog[p]) >= 2
    /\ recLog[p][1] = <<"get_bot", ChannelOf(rec(p)), BotId, "admin_ok">>
    /\ recLog[p][2] = <<"get_member", ChannelOf(rec(p)), UserOf(rec(p)), "member">>

\* C6. Success ordering. For such a record the first call after the checks is
\* ban_chat_member(channel, user); the status is written only after that call
\* returned; and when it returned the calls are, in this order, the ban,
\* update_subscription_status(user, channel, banned), then exactly one
\* send_message to the owner with the undo button.
C6_SuccessOrdering ==
    \A p \in Sweepers :
        FullRightsMember(p) =>
            LET T == AfterChecks(p)
                s == rec(p)
            IN  /\ Len(T) >= 1 => /\ T[1][1] = "ban"
                                   /\ T[1][2] = ChannelOf(s)
                                   /\ T[1][3] = UserOf(s)
                /\ \A i \in 1..Len(T) : T[i][1] = "update" => (i > 1 /\ T[1][4] = "ok")
                /\ subStatus[s] = "banned" => \E i \in 1..Len(T) : T[i][1] = "update"
                /\ (Len(T) >= 1 /\ T[1][4] = "ok") =>
                       /\ Len(T) <= 3
                       /\ Len(T) >= 2 => T[2] = <<"update", UserOf(s), ChannelOf(s), "banned">>
                       /\ Len(T) = 3 => /\ T[3][1] = "send"
                                         /\ T[3][2] = OwnerOf(s)
                                         /\ T[3][3] = "auto_ban_undo"
                       /\ RecordDone(p) => Len(T) = 3

C6_Witness ==
    \E p \in Sweepers :
        /\ FullRightsMember(p)
        /\ RecordDone(p)
        /\ Len(AfterChecks(p)) = 3
        /\ subStatus[rec(p)] = "banned"

\* C10. Late-detected missing right. A record whose ban_chat_member failed
\* with a lacking-rights error is banned once the sweep has handled it.
C10_LateNoRightBanned ==
    \A p \in Sweepers :
        (RecordDone(p) /\ \E i \in Entries(p, "ban") : recLog[p][i][4] = "lacking_rights")
            => subStatus[rec(p)] = "banned"

\* C11. Transient removal error. When ban_chat_member fails with an error
\* that is not a lacking-rights one, that call is the last thing done for the
\* record: no status write, no notice; the status stays active, the sweep is
\* at the next record (or done), and the record is among those the query of
\* the next sweep returns.
C11_TransientRemovalError ==
    \A p \in Sweepers :
        \A i \in Entries(p, "ban") :
            recLog[p][i][4] \in {"bad_request", "error"} =>
                /\ i = Len(recLog[p])
                /\ Entries(p, "send") = {}
                /\ Entries(p, "update") = {}
                /\ pc[p] \in {"resolve", "idle"}
                /\ subStatus[rec(p)] = "active"
                /\ \E k \in 1..Len(get_expired_subscriptions(subStatus, subEnd, now)) :
                       get_expired_subscriptions(subStatus, subEnd, now)[k] = rec(p)

\* a removal failed with another TelegramBadRequest and the pass went on to
\* the next record of its batch
C11_Witness ==
    \E p \in Sweepers :
        /\ \E i \in Entries(p, "ban") : recLog[p][i][4] = "bad_request"
        /\ pc[p] = "resolve"
        /\ idx[p] <= Len(batch[p])

\* the records of channel c a pass has handled so far
HandledOn(p, c) ==
    {j \in 1..(idx[p] - 1) :
        j <= Len(batch[p]) /\ get_premium_channel_id(OwnerOf(batch[p][j])) = c}

\* C12. Missing-right notification count. In one pass a channel gets at most
\* one missing-right notice; it has got exactly one as soon as the pass has
\* found the right missing on it (by the pre-check or by the ban call) and
\* has left the record on which it found that, however many records share
\* the channel; a channel not found lacking gets none.
C12_OneNoticePerChannel ==
    \A p \in Sweepers : \A c \in Channels :
        /\ noticed[p][c] <= 1
        /\ c \notin noBan[p] => noticed[p][c] = 0
        /\ (c \in noBan[p] /\ pc[p] \notin {"noright_notify", "late_notify"})
               => noticed[p][c] = 1

\* the right was found missing by the ban call and a second record of the
\* channel has been handled in the same pass
C12_Witness ==
    \E p \in Sweepers : \E c \in Channels :
        /\ noticed[p][c] = 1
        /\ preNoRight[p][c] = 0
        /\ Cardinality(HandledOn(p, c)) >= 2

\* C13. Batch isolation. Whatever storage, transport and notice calls fail, a
\* pass of the sweep and a run of the publication end only after the last
\* record of the batch: while one is under way its index is inside the
\* batch, and when it has ended the index is past the last record.
C13_BatchIsolation ==
    /\ \A p \in Sweepers :
          IF pc[p] = "idle" THEN idx[p] = Len(batch[p]) + 1
          ELSE idx[p] \in 1..Len(batch[p])
    /\ \A p \in Publishers :
          IF ppc[p] \in {"idle", "single_run"} THEN pidx[p] = Len(pbatch[p]) + 1
          ELSE pidx[p] \in 1..Len(pbatch[p])

\* a pass has ended whose first record is still active (a call made for it
\* failed) and whose last record was handled after it and is banned
C13_Witness ==
    /\ stFault = "sweep"
    /\ pc["job"] = "idle"
    /\ Len(batch["job"]) >= 2
    /\ subStatus[batch["job"][1]] = "active"
    /\ subStatus[batch["job"][Len(batch["job"])]] = "banned"

\* C23. Every message the sweep sends for a record goes to the owner of the
\* subscription; none goes to the chat of the user being removed, or of any user.
C23_OwnerOnly ==
    \A p \in Sweepers : \A i \in Entries(p, "send") :
        /\ recLog[p][i][2] = OwnerOf(rec(p))
        /\ recLog[p][i][2] \notin {UserChat(u) : u \in Users}

\* a user was removed and the auto-ban notice went out; in the same pass a
\* missing-right notice was sent too
C23_Witness ==
    \E p \in Sweepers :
        /\ \E i \in Entries(p, "ban") : recLog[p][i][4] = "ok"
        /\ \E i \in Entries(p, "send") : recLog[p][i][3] = "auto_ban_undo"
        /\ \E c \in Channels : noticed[p][c] = 1

\* this step the sweep of p writes a status
SweepWrites(p) ==
    /\ Len(recLog'[p]) = Len(recLog[p]) + 1
    /\ recLog'[p][Len(recLog'[p])][1] = "update"

\* C24. Sweep state machine. When the sweep writes a status, the stored
\* status of the record it writes is active, and the only change the write
\* makes is from active to banned: a record that is banned, or that became
\* left while the sweep was running, is not touched.
C24_ActiveToBannedOnly ==
    [][\A p \in Sweepers : SweepWrites(p) =>
          /\ subStatus[cur(p)] = "active"
          /\ \A s \in SubIds : subStatus'[s] # subStatus[s] =>
                 (subStatus[s] = "active" /\ subStatus'[s] = "banned")]_vars

\* C21. Overlapping sweeps are harmless: with sweeps that overlap, no
\* subscription is removed from its channel more than once and its owner
\* gets no more than one auto-ban notice for it.
C21_OverlapHarmless ==
    \A s \in SubIds : banLog[s].removed <= 1 /\ banLog[s].notices <= 1

\* C29. Pre-check fallback. A query of the bot's own membership that raises is
\* followed by the query of the user's role, and a query of the user's role
\* that raises is followed by the removal call, for the same record; the
\* step in which a query raises changes no status and sends no notice, and no
\* status write or notice stands between the failed query and what follows it.
QueryRaised(e) == e[1] \in {"get_bot", "get_member"} /\ e[4] = "error"
FollowUp(e) == IF e[1] = "get_bot" THEN "get_member" ELSE "ban"
C29_PrecheckFallback ==
    [][LET L == recLog'["job"] IN
       /\ \A i \in 1..Len(L) :
            QueryRaised(L[i]) =>
                IF i = Len(L) THEN pc'["job"] = FollowUp(L[i])
                              ELSE L[i + 1][1] = FollowUp(L[i])
       /\ (L # recLog["job"] /\ L # <<>> /\ QueryRaised(L[Len(L)])) =>
              /\ subStatus' = subStatus
              /\ noticed' = noticed
              /\ banLog' = banLog
              /\ batch' = batch /\ idx' = idx
      ]_vars
\* both queries raised for a record, the removal was called and returned,
\* the record was marked banned after it
C29_Witness ==
    LET L == recLog["job"] IN
    /\ RecordDone("job")
    /\ Len(L) >= 4
    /\ L[1][1] = "get_bot" /\ L[1][4] = "error"
    /\ L[2][1] = "get_member" /\ L[2][4] = "error"
    /\ L[3][1] = "ban" /\ L[3][4] = "ok"
    /\ L[4][1] = "update"
    /\ subStatus[rec("job")] = "banned"

\* C30. Capability cache: within one pass of the sweep the bot's own
\* membership in a channel is queried from the transport at most once per
\* channel.
C30_OneCapabilityQueryPerChannel ==
    \A p \in Sweepers : \A c \in Channels : botAsked[p][c] <= 1

\* C31. After a removal call on a channel failed for lacking rights, the pass
\* makes no further removal call on that channel: a removal call is made
\* only on a channel that the pass does not know to lack the right, a
\* lacking-rights failure makes the channel known, what is known is kept to
\* the end of the pass, and a new pass starts knowing nothing.
C31_NoRepeatedFailingRemoval ==
    [][LET L == recLog'["job"] IN
       /\ runs'["job"] = runs["job"] => noBan["job"] \subseteq noBan'["job"]
       /\ runs'["job"] # runs["job"] => noBan'["job"] = {}
       /\ (L # recLog["job"] /\ L # <<>> /\ L[Len(L)][1] = "ban") =>
              /\ L[Len(L)][2] \notin noBan["job"]
              /\ L[Len(L)][4] = "lacking_rights" => L[Len(L)][2] \in noBan'["job"]
      ]_vars
\* the removal on c1 failed for lacking rights for an earlier record of the
\* pass (the pre-check had not found it), and a later record of c1 was
\* marked banned with no transport call at all
C31_Witness ==
    LET L == recLog["job"] IN
    /\ RecordDone("job")
    /\ "c1" \in noBan["job"]
    /\ preNoRight["job"]["c1"] = 0
    /\ Len(L) = 1 /\ L[1][1] = "update"

\* C32. Missing enforcement target: a record whose owner has no premium
\* channel is skipped. The step that finds no channel leaves every status,
\* makes no transport call and sends no notice, and the pass goes on with
\* the next record of the batch.
C32_NoTargetSkipped ==
    [][(pc["job"] = "resolve" /\ now' = now /\ get_premium_channel_id(OwnerOf(cur("job"))) = None) =>
          /\ subStatus' = subStatus
          /\ recLog'["job"] = <<>>
          /\ passCalls' = passCalls /\ tpMemo' = tpMemo
          /\ banLog' = banLog /\ noticed' = noticed /\ botAsked' = botAsked
          /\ batch' = batch
          /\ idx'["job"] = idx["job"] + 1
          /\ pc'["job"] = IF idx["job"] < Len(batch["job"]) THEN "resolve" ELSE "idle"
      ]_vars
\* the first record of the batch had no channel and is still active, the
\* record after it was removed from its channel
C32_Witness ==
    /\ Len(batch["job"]) = 2
    /\ get_premium_channel_id(OwnerOf(batch["job"][1])) = None
    /\ subStatus[batch["job"][1]] = "active"
    /\ RecordDone("job")
    /\ rec("job") = batch["job"][2]
    /\ \E i \in Entries("job", "ban") : recLog["job"][i][4] = "ok"
    /\ banLog[batch["job"][1]] = [removed |-> 0, notices |-> 0]

\* C37. The channel from which the sweep removes a user is the channel of
\* the subscription record it is handling: every removal call of the sweep
\* names the user and the channel of that record.
C37_RemovalOnRecordChannel ==
    \A i \in Entries("job", "ban") :
        /\ recLog["job"][i][2] = ChannelOf(rec("job"))
        /\ recLog["job"][i][3] = UserOf(rec("job"))

\* C35. Lead-tracking records never expire: a subscription with the end date
\* of a free-channel join is in no batch of the sweep, is never marked
\* banned, and the sweep makes no removal and sends no auto-ban notice for it.
C35_LeadsNeverExpire ==
    \A s \in SubIds :
        subEnd[s] = FarFuture =>
            /\ \A i \in 1..Len(batch["job"]) : batch["job"][i] # s
            /\ subStatus[s] # "banned"
            /\ banLog[s] = [removed |-> 0, notices |-> 0]
            /\ s \notin passCalls["job"]
\* the lead of the free channel was stored before the end of the first pass
\* and a second pass, that had work to do, has ended: the lead is still active
C35_Witness ==
    \E s \in SubIds :
        /\ ChannelType(ChannelOf(s)) = "free"
        /\ subEnd[s] = FarFuture
        /\ Len(h_end["job"]) = 2
        /\ h_end["job"][1].status[s] = "active"
        /\ batch["job"] # <<>>
        /\ pc["job"] = "idle"
        /\ subStatus[s] = "active"

\* C38. No removal of a renewed subscription: in the step in which the sweep
\* calls the removal for a record, the stored record is active and its end
\* date is not after the clock.
C38_NoBanOfRenewed ==
    [][LET L == recLog'["job"] IN
       (L # recLog["job"] /\ L # <<>> /\ L[Len(L)][1] = "ban") =>
           /\ subStatus[cur("job")] = "active"
           /\ subEnd[cur("job")] <= now
      ]_vars

\* C39. An auto-ban notice implies a stored ban: in the step in which the
\* sweep sends the owner the auto-ban notice for a record, the stored status
\* of that record is banned.
C39_NoticeImpliesStoredBan ==
    [][LET L == recLog'["job"] IN
       (L # recLog["job"] /\ L # <<>> /\ L[Len(L)][1] = "send"
            /\ L[Len(L)][3] = "auto_ban_undo") =>
           subStatus[cur("job")] = "banned"
      ]_vars

\* C33. Manual unban moves a subscription to left, never to active: after
\* handle_unban_callback or unban_user has taken the button of a record, the
\* stored status of the record is left, whatever the unban call answered; and
\* a pass of the sweep selects only records that are active when it fetches.
C33_UnbanToLeft ==
    [][/\ \A s \in SubIds :
            (pressed' # pressed /\ pressed'.data \in {ban_list_button(s), dashboard_button(s)}) =>
                /\ pressed'.handler \in {"handle_unban_callback", "unban_user"}
                /\ subStatus'[s] = "left"
       /\ batch'["job"] # batch["job"] =>
            \A i \in 1..Len(batch'["job"]) : subStatus[batch'["job"][i]] = "active"
      ]_vars
\* the unban call of the button of a banned record raised, the record has
\* been left since before the end of the first pass, and the second pass
\* did not select it
C33_Witness ==
    \E s \in SubIds :
        /\ pressed.data \in {ban_list_button(s), dashboard_button(s)}
        /\ pressed.unban = "error"
        /\ subStatus[s] = "left"
        /\ Len(h_end["job"]) = 2
        /\ h_end["job"][1].status[s] = "left"
        /\ batch["job"] # <<>>
        /\ \A i \in 1..Len(batch["job"]) : batch["job"][i] # s

\* C36. The undo button of the auto-ban notice undoes the ban: when the owner
\* presses it a handler takes the callback query, and after it the
\* subscription is no longer banned.
C36_UndoReverses ==
    [][\A s \in SubIds :
          (pressed' # pressed /\ pressed'.data = undo_button(s)) =>
              /\ pressed'.handler # "unhandled"
              /\ subStatus'[s] # "banned"
      ]_vars

\* C34: subscription identity. The table never holds two rows with the same
\* (user_id, channel_id), and a create_subscription call that stores leaves
\* exactly one row for its pair: the new one, with status active, the end
\* date and the owner of the call, whatever row of the pair was there before;
\* the rows of the other pairs stay as they were.
OnePerPair(t) ==
    \A r \in BagToSet(t) :
        CopiesIn(r, t) = 1 /\ \A q \in BagToSet(t) : Key(q) = Key(r) => q = r
C34_SubscriptionIdentity ==
    [][ /\ OnePerPair(table')
        /\ (call' # call /\ call'.ok) =>
              /\ \E r \in BagToSet(table') :
                    /\ TableRows(table', call'.key) = {r}
                    /\ r.status = "active"
                    /\ r.end_date = call'.end_date
                    /\ r.owner_id = call'.owner_id
              /\ BagCardinality(table') =
                    BagCardinality(table) + (IF call'.was = "none" THEN 1 ELSE 0)
              /\ \A r \in BagToSet(table) : Key(r) # call'.key =>
                    CopiesIn(r, table') = CopiesIn(r, table)
      ]_vars
\* a create_subscription call met a banned row of its pair and replaced it,
\* next to the row of another pair
C34_Witness ==
    /\ call.ok
    /\ call.was = "banned"
    /\ BagCardinality(table) = 2
    /\ \E r \in BagToSet(table) :
          Key(r) = call.key /\ r.status = "active" /\ r.owner_id = call.owner_id

(***************************************************************************)
(* Properties of the publication pipeline                                   *)
(***************************************************************************)
InBatch(p) == {pbatch[p][i] : i \in 1..Len(pbatch[p])}

\* C7. Publication idempotence. A run's batch is exactly the posts that were
\* pending and due when it fetched; a post that was sent or failed at that
\* moment is not in the batch and is not handed to the transport by the run.
C7_PublicationIdempotent ==
    \A p \in Publishers : \A x \in PostIds :
        /\ psnap[p].at >= 0 =>
              (x \in InBatch(p) <=>
                  (psnap[p].status[x] = "pending" /\ PostDate(x) <= psnap[p].at))
        /\ psnap[p].status[x] \in {"sent", "failed"} =>
              (x \notin InBatch(p) /\ x \notin pSent[p])

\* a run that fetched after a post had reached sent or failed has handed
\* another post to the transport
C7_Witness ==
    \E p \in Publishers : \E x \in PostIds :
        /\ psnap[p].status[x] \in {"sent", "failed"}
        /\ pSent[p] # {}

\* C8. At-most-once publication: the content of a post is handed to the
\* transport at most once, over all runs.
C8_AtMostOnce == \A x \in PostIds : dispatched[x] <= 1

\* C9. Post status transitions: a status changes only from pending, to sent
\* or to failed.
C9_StatusTransitions ==
    [][\A x \in PostIds :
          postStatus'[x] # postStatus[x] =>
              (postStatus[x] = "pending" /\ postStatus'[x] \in {"sent", "failed"})]_vars

\* the posts of its batch a run is done with
Handled(p) == {pbatch[p][i] : i \in 1..(pidx[p] - 1)}
\* the posts the query returns at time t
Due(t) == {get_posts_to_publish(postStatus, t)[i] :
              i \in 1..Len(get_posts_to_publish(postStatus, t))}

\* C14. Unrecognized content type. A post whose content type has no send
\* operation is never handed to the transport and never becomes sent; once a
\* run is done with it its status is failed; and a failed post is returned by
\* no later query, so no later run has it in its batch.
C14_UnknownContentType ==
    \A x \in PostIds :
        PostType(x) \notin {"text", "photo", "video", "document", "sticker"} =>
            /\ dispatched[x] = 0
            /\ sentTo[x] = {}
            /\ postStatus[x] # "sent"
            /\ \A p \in Publishers : x \in Handled(p) => postStatus[x] = "failed"
            /\ postStatus[x] = "failed" =>
                   /\ \A t \in 0..MaxTime : x \notin Due(t)
                   /\ \A p \in Publishers :
                          psnap[p].status[x] = "failed" => x \notin InBatch(p)

\* a post of unknown type has failed and a later run, fetched after that,
\* has handed another post to the transport
C14_Witness ==
    \E x \in PostIds : \E p \in Publishers :
        /\ PostType(x) = "unknown"
        /\ PostDate(x) <= psnap[p].at
        /\ psnap[p].status[x] = "failed"
        /\ pSent[p] # {}

\* the place of post x in the batch of run p (0: not in it)
PlaceIn(p, x) ==
    IF x \in InBatch(p) THEN CHOOSE i \in 1..Len(pbatch[p]) : pbatch[p][i] = x ELSE 0

\* C15. Target channel resolution. A post with a channel reference is sent
\* to that channel only; a post without one is sent to its owner's premium
\* channel only; a post for which neither exists is never handed to the
\* transport and is failed once the run is done with it.
C15_TargetChannel ==
    \A x \in PostIds :
        LET own     == PostChannel(x)
            default == get_premium_channel_id(PostOwner(x))
        IN  /\ own # None => sentTo[x] \subseteq {own}
            /\ (own = None /\ default # None) => sentTo[x] \subseteq {default}
            /\ (own = None /\ default = None) =>
                   /\ sentTo[x] = {}
                   /\ dispatched[x] = 0
                   /\ postStatus[x] # "sent"
                   /\ \A p \in Publishers : x \in Handled(p) => postStatus[x] = "failed"

\* one run failed a post without any channel and then sent a later post of
\* its batch to the owner's premium channel; a post with a channel reference
\* other than its owner's premium channel was sent to that reference
C15_Witness ==
    /\ \E p \in Publishers : \E x, y \in PostIds :
          /\ PostChannel(x) = None /\ get_premium_channel_id(PostOwner(x)) = None
          /\ x \in Handled(p) /\ postStatus[x] = "failed"
          /\ PostChannel(y) = None /\ y \in pSent[p]
          /\ sentTo[y] = {get_premium_channel_id(PostOwner(y))}
          /\ PlaceIn(p, x) < PlaceIn(p, y)
    /\ \E z \in PostIds :
          /\ PostChannel(z) \notin {None, get_premium_channel_id(PostOwner(z))}
          /\ sentTo[z] = {PostChannel(z)}

C17_PostPacing ==
    \A p \in Publishers : sincePause[p] <= 1

(***************************************************************************)
(* Properties of the scheduler core                                        *)
(***************************************************************************)
\* a start() call has just ended, a stop() call has just ended
StartReturns == lastCall' # lastCall /\ lastCall' \in {"start_ok", "start_ignored", "start_raised"}
StopReturns  == lastCall' # lastCall /\ lastCall' \in {"stop_done", "stop_ignored", "stop_error"}

\* C18. start() on a running scheduler fails with an error (AlreadyRunning)
\* and leaves the registered jobs and the running state as they were.
C18_StartWhileRunning ==
    [][(isRunning /\ StartReturns) =>
          /\ lastCall' = "start_raised"
          /\ jobs' = jobs
          /\ isRunning' = isRunning /\ apsRunning' = apsRunning]_vars

SweepSends(p) ==
    /\ Len(recLog'[p]) = Len(recLog[p]) + 1
    /\ recLog'[p][Len(recLog'[p])][1] = "send"
SweepRecipient(p) == recLog'[p][Len(recLog'[p])][2]
\* this step the publication run of p sends its confirmation to the owner
PubConfirms(p) == ppc[p] = "confirm" /\ ppc'[p] # "confirm"
\* this step a call that has passed the throttle for owner o makes its send
ThroughNotifier(o) ==
    \E c \in LeadCallers : cpc[c] = "send" /\ cowner[c] = o /\ cpc'[c] = "idle"

\* C22. Every owner-facing notification of the sweep and of the publication
\* pipeline passes through the rate-limited notifier: the step that sends it
\* is the send of a call that has passed the owner's throttle.
C22_AllThroughNotifier ==
    [][/\ \A p \in Sweepers : SweepSends(p) => ThroughNotifier(SweepRecipient(p))
       /\ \A p \in Publishers : PubConfirms(p) => ThroughNotifier(PostOwner(pcur(p)))]_vars

(***************************************************************************)
(* Properties of the lead notifier.                                        *)
(***************************************************************************)
\* the calls for owner o whose send_message is under way
Sending(o) == {c \in LeadCallers : cpc[c] = "send" /\ cowner[c] = o}
\* the recorded send times of owner o inside the window that ends at t
InWindow(o, t) == SelectSeq(passLog[o], LAMBDA x : x > t - LeadWindow)

\* C25 as stated: the lock is held only while the bookkeeping is read and
\* updated, so no call holds it across an await.
C25_LockOnlyForBookkeeping == lockHolder = {}

\* C25. The lock is held from the entry into the throttle to the recording of
\* the timestamp, the spacing sleep included, and by nobody else: a call at
\* its send_message does not hold it, and with a call at its send the first
\* waiter can take the free lock.
C25_LockReleasedBeforeSend ==
    /\ \A c \in lockHolder : cpc[c] = "sleeping"
    /\ \A c \in LeadCallers : cpc[c] = "send" => c \notin lockHolder
    /\ (lockHolder = {} /\ lockQueue # <<>>) => ENABLED Acquire(Head(lockQueue))

\* one call is at its send while another call, which entered the throttle
\* after it, holds the lock
C25_Witness ==
    \E c, k \in LeadCallers :
        /\ cpc[c] = "send"
        /\ lockHolder = {k}
        /\ cpc[k] = "sleeping"

\* C26: a notification skipped at the ceiling changes nothing of the throttle
\* state but the pruning of the owner's window: in a step that skips a call
\* for owner o the window of o becomes its entries younger than 60 seconds
\* and no timestamp is added, the last-sent slots and the windows of the
\* other owners stay, nothing is handed to the transport, and the skipped
\* call is over: it neither sleeps, nor waits for the lock, nor is at its send.
C26_SkipLeavesState ==
    [][\A o \in LeadOwners :
        nSkipped'[o] > nSkipped[o] =>
           /\ winTs'[o] = SelectSeq(winTs[o], LAMBDA x : x > now - LeadWindow)
           /\ \A q \in LeadOwners \ {o} : winTs'[q] = winTs[q]
           /\ lastTs' = lastTs
           /\ passLog' = passLog /\ nPassed' = nPassed
           /\ nSendCalls' = nSendCalls
           /\ wake' = wake
           /\ lockHolder' = {}
           /\ \A c \in LeadCallers :
                cpc'[c] # cpc[c] => (cpc'[c] = "idle" /\ cowner[c] \in {o, None})
           /\ Len(lockQueue') <= Len(lockQueue)
      ]_vars
\* a call for o2 was skipped at the ceiling: the window is full and the
\* last-sent slot is the newest entry of the window
C26_Witness ==
    /\ nSkipped["o2"] >= 1
    /\ Len(winTs["o2"]) = _LEAD_MAX_PER_MINUTE
    /\ lastTs["o2"] = winTs["o2"][Len(winTs["o2"])]
    /\ \A c \in LeadCallers : cpc[c] = "idle"

\* C27: per owner, the notifications are handed to the transport in the
\* order in which their calls passed the throttle: each call of send_message
\* for owner o is made by the call that recorded its timestamp next after
\* the one whose send_message was called before, and a call inside
\* send_message is one of those handed over so far.
C27_PerOwnerOrder ==
    [][/\ \A o \in LeadOwners :
            handed'[o] # handed[o] => handed'[o] = handed[o] + 1
       /\ \A c \in LeadCallers :
            cpc'[c] = "send" =>
                (ticket'[c] >= 1 /\ ticket'[c] <= handed'[cowner'[c]])
      ]_vars
\* two calls for o2 are inside send_message at once, the later ticket was
\* handed over last
C27_Witness ==
    \E c, k \in LeadCallers :
        /\ cpc[c] = "send" /\ cpc[k] = "send"
        /\ cowner[c] = "o2" /\ cowner[k] = "o2"
        /\ ticket[k] = ticket[c] + 1
        /\ handed["o2"] = ticket[k]

\* C28: the bookkeeping of the throttle. Whenever the lock is free, for every
\* owner with a recorded send the last-sent slot is the newest timestamp
\* ever appended to the owner's window and the window is in non-decreasing
\* order; and a step in which a call passes the throttle writes the time of
\* the step to the last-sent slot and to the end of the window.
NonDecreasing(w) == \A i \in 1..(Len(w) - 1) : w[i] <= w[i + 1]
C28_Bookkeeping ==
    [][/\ lockHolder' = {} =>
            \A o \in LeadOwners :
                /\ nPassed'[o] >= 1 =>
                       lastTs'[o] = passLog'[o][Len(passLog'[o])]
                /\ NonDecreasing(winTs'[o])
       /\ \A o \in LeadOwners :
            nPassed'[o] > nPassed[o] =>
                /\ lastTs'[o] = now
                /\ winTs'[o] # <<>>
                /\ winTs'[o][Len(winTs'[o])] = now
      ]_vars
\* the lock is free, o2 had two sends and the entries before the newest one
\* were pruned from its window: the last-sent slot is the entry that is left
C28_Witness ==
    /\ lockHolder = {}
    /\ nPassed["o2"] >= 2
    /\ Len(winTs["o2"]) = 1
    /\ lastTs["o2"] = winTs["o2"][1]
    /\ lastTs["o2"] > Epoch

\* C2: rate bound. For every owner the send times recorded within any 60
\* seconds are at most 25; a call goes on past the ceiling test only when it
\* found fewer than 25 of them; every send_message is of a call that recorded
\* its time, so a call skipped at the ceiling is not sent, then or later.
C2_RateBound ==
    \A o \in LeadOwners :
        /\ Len(passLog[o]) <= _LEAD_MAX_PER_MINUTE
        /\ \A c \in LeadCallers :
              cpc[c] = "sleeping" /\ cowner[c] = o
                  => Len(InWindow(o, now)) < _LEAD_MAX_PER_MINUTE
        /\ nSendCalls[o] + Cardinality(Sending(o)) = nPassed[o]
        /\ nSkipped[o] > 0 => nPassed[o] >= _LEAD_MAX_PER_MINUTE

\* a call was skipped with 25 sends in the window, and once the window had
\* moved on a later call passed
C2_Witness ==
    /\ nSkipped["o2"] >= 1
    /\ nPassed["o2"] = _LEAD_MAX_PER_MINUTE + 1
    /\ nSendCalls["o2"] = _LEAD_MAX_PER_MINUTE + 1
    /\ Len(passLog["o2"]) = _LEAD_MAX_PER_MINUTE

\* C3: minimum spacing. For every owner two consecutive recorded send times
\* are at least 2 seconds apart, whatever the arrival of the calls.
C3_MinSpacing ==
    \A o \in LeadOwners :
        \A i \in 1..(Len(passLog[o]) - 1) :
            passLog[o][i + 1] - passLog[o][i] >= _LEAD_MIN_INTERVAL

\* a call for an owner slept out the rest of the interval while a call for
\* the other owner was served as well
C3_Witness ==
    /\ Len(passLog["o2"]) >= 3
    /\ passLog["o2"][2] - passLog["o2"][1] = _LEAD_MIN_INTERVAL
    /\ passLog["o2"][3] - passLog["o2"][2] > _LEAD_MIN_INTERVAL
    /\ Len(passLog["o3"]) >= 1
    /\ \E c \in LeadCallers : cpc[c] = "send" /\ cowner[c] = "o2"

====
